---- MODULE Spec2Model ----
(***************************************************************************)
(* Tello-Renewal: the persisted scheduling state (DueDateCache and         *)
(* ExecutionStatusCache of utils/cache.py) and the renewal engine that     *)
(* RenewalEngine.execute_renewal (core/renewer.py) delegates to.           *)
(*                                                                         *)
(* A cache file is a text: a sequence of characters (one-character         *)
(* strings, the line feed written LF).  Dates are proleptic Gregorian      *)
(* ordinals as datetime.date.toordinal() counts them, so that date         *)
(* subtraction, strftime/strptime and isoformat/fromisoformat are the      *)
(* conversions the code runs, not identities.                              *)
(***************************************************************************)
EXTENDS Integers, Sequences, FiniteSets, TLC

\* ------------------------------------------------------------------ bounds
MaxDay == 1
MaxTick == 1
MaxDaysBefore == 1
MaxRuns == 2
PlanDays == 30
MaxFallbacks == 2
MaxSent == 2

\* ---------------------------------------------------------------- calendar
IsLeap(y) == y % 4 = 0 /\ (y % 100 # 0 \/ y % 400 = 0)

DaysInMonth(y, m) ==
    IF m = 2 THEN (IF IsLeap(y) THEN 29 ELSE 28)
    ELSE IF m \in {4, 6, 9, 11} THEN 30 ELSE 31

DaysBeforeMonth(y, m) ==
    <<0, 31, 59, 90, 120, 151, 181, 212, 243, 273, 304, 334>>[m]
        + (IF m > 2 /\ IsLeap(y) THEN 1 ELSE 0)

DaysBeforeYear(y) ==
    LET p == y - 1 IN p * 365 + (p \div 4) - (p \div 100) + (p \div 400)

\* date(y, m, d).toordinal()
ymd2ord(y, m, d) == DaysBeforeYear(y) + DaysBeforeMonth(y, m) + d

\* date.fromordinal(n) as <<year, month, day>>
ord2ymd(n) ==
    LET n0   == n - 1
        n400 == n0 \div 146097
        r400 == n0 % 146097
        n100 == r400 \div 36524
        r100 == r400 % 36524
        n4   == r100 \div 1461
        r4   == r100 % 1461
        n1   == r4 \div 365
        r1   == r4 % 365
        year == n400 * 400 + 1 + n100 * 100 + n4 * 4 + n1
    IN  IF n1 = 4 \/ n100 = 4 THEN <<year - 1, 12, 31>>
        ELSE LET m0    == (r1 + 50) \div 32
                 prec0 == DaysBeforeMonth(year, m0)
                 month == IF prec0 > r1 THEN m0 - 1 ELSE m0
                 prec  == DaysBeforeMonth(year, month)
             IN  <<year, month, r1 - prec + 1>>

\* The first calendar day of the model: 2024-12-30, so that the days of a
\* behaviour cross a month and a year.
Epoch == ymd2ord(2024, 12, 30)

Days == Epoch .. (Epoch + MaxDay)

\* -------------------------------------------------------------------- text
LF == "LF"
DIGITS == <<"0", "1", "2", "3", "4", "5", "6", "7", "8", "9">>

IsDigit(c) == \E i \in 1..10 : DIGITS[i] = c
DigitVal(c) == (CHOOSE i \in 1..10 : DIGITS[i] = c) - 1
IsSpace(c) == c \in {" ", LF, "TAB"}

AllDigits(t) == \A i \in 1..Len(t) : IsDigit(t[i])

RECURSIVE Num(_)
Num(t) == IF t = <<>> THEN 0
          ELSE 10 * Num(SubSeq(t, 1, Len(t) - 1)) + DigitVal(t[Len(t)])

RECURSIVE Pad(_, _)
\* n in decimal, zero-padded to w digits (%02d, %04d, %06d)
Pad(n, w) == IF w = 0 THEN <<>>
             ELSE Pad(n \div 10, w - 1) \o <<DIGITS[(n % 10) + 1]>>

RECURSIVE lstrip(_)
lstrip(t) == IF t # <<>> /\ IsSpace(Head(t)) THEN lstrip(Tail(t)) ELSE t

RECURSIVE rstrip(_)
rstrip(t) == IF t # <<>> /\ IsSpace(t[Len(t)])
             THEN rstrip(SubSeq(t, 1, Len(t) - 1)) ELSE t

\* str.strip()
strip(t) == rstrip(lstrip(t))

RECURSIVE split(_, _)
\* str.split(sep) for a one-character separator: always at least one field
split(t, sep) ==
    IF \A i \in 1..Len(t) : t[i] # sep THEN <<t>>
    ELSE LET k == CHOOSE i \in 1..Len(t) :
                      t[i] = sep /\ \A j \in 1..(i - 1) : t[j] # sep
         IN  <<SubSeq(t, 1, k - 1)>> \o split(SubSeq(t, k + 1, Len(t)), sep)

\* ------------------------------------------------------------- conversions
\* renewal_date.strftime("%Y-%m-%d")
strftime_ymd(d) ==
    LET ymd == ord2ymd(d)
    IN  Pad(ymd[1], 4) \o <<"-">> \o Pad(ymd[2], 2) \o <<"-">> \o Pad(ymd[3], 2)

\* %m of strptime: 1[0-2]|0[1-9]|[1-9]
MonthField(f) ==
    /\ AllDigits(f)
    /\ \/ Len(f) = 2 /\ Num(f) \in 1..12
       \/ Len(f) = 1 /\ Num(f) \in 1..9

\* %d of strptime: 3[01]|[12]\d|0[1-9]|[1-9]| [1-9]
DayField(f) ==
    \/ AllDigits(f) /\ Len(f) = 2 /\ Num(f) \in 1..31
    \/ AllDigits(f) /\ Len(f) = 1 /\ Num(f) \in 1..9
    \/ Len(f) = 2 /\ f[1] = " " /\ IsDigit(f[2]) /\ DigitVal(f[2]) \in 1..9

\* datetime.strptime(date_str, "%Y-%m-%d").date(): ok = FALSE is ValueError
strptime_ymd(t) ==
    LET f == split(t, "-")
        wellFormed == /\ Len(f) = 3
                      /\ Len(f[1]) = 4 /\ AllDigits(f[1])
                      /\ MonthField(f[2])
                      /\ DayField(f[3])
    IN  IF ~wellFormed THEN [ok |-> FALSE, date |-> 0]
        ELSE LET y == Num(f[1])
                 m == Num(f[2])
                 d == Num(lstrip(f[3]))
             IN  IF y >= 1 /\ d <= DaysInMonth(y, m)
                 THEN [ok |-> TRUE, date |-> ymd2ord(y, m, d)]
                 ELSE [ok |-> FALSE, date |-> 0]

\* A datetime: the date as an ordinal and the time of day.
Timestamp(d, hh, mm, ss, us) ==
    [date |-> d, hh |-> hh, mm |-> mm, ss |-> ss, us |-> us]

\* timestamp.isoformat(): the fraction is written only when it is not zero
isoformat(ts) ==
    strftime_ymd(ts.date) \o <<"T">> \o Pad(ts.hh, 2) \o <<":">>
        \o Pad(ts.mm, 2) \o <<":">> \o Pad(ts.ss, 2)
        \o (IF ts.us # 0 THEN <<".">> \o Pad(ts.us, 6) ELSE <<>>)

BadTime == [ok |-> FALSE, hh |-> 0, mm |-> 0, ss |-> 0, us |-> 0]

\* The time half of datetime.fromisoformat: HH[:MM[:SS[.fff[fff]]]], no
\* timezone suffix (none of the texts used here carries one).
ParseIsoTime(t) ==
    LET n == Len(t)
        two(i) == SubSeq(t, i, i + 1)
        hhOk == n >= 2 /\ AllDigits(two(1))
        mmOk == n >= 5 /\ t[3] = ":" /\ AllDigits(two(4))
        ssOk == n >= 8 /\ t[6] = ":" /\ AllDigits(two(7))
        frac == SubSeq(t, 10, n)
        usOk == n \in {12, 15} /\ t[9] = "." /\ AllDigits(frac)
        r(hh, mm, ss, us) ==
            IF hh \in 0..23 /\ mm \in 0..59 /\ ss \in 0..59
            THEN [ok |-> TRUE, hh |-> hh, mm |-> mm, ss |-> ss, us |-> us]
            ELSE BadTime
    IN  IF n = 0 THEN r(0, 0, 0, 0)
        ELSE IF n = 2 /\ hhOk THEN r(Num(two(1)), 0, 0, 0)
        ELSE IF n = 5 /\ hhOk /\ mmOk THEN r(Num(two(1)), Num(two(4)), 0, 0)
        ELSE IF n = 8 /\ hhOk /\ mmOk /\ ssOk
             THEN r(Num(two(1)), Num(two(4)), Num(two(7)), 0)
        ELSE IF hhOk /\ mmOk /\ ssOk /\ usOk
             THEN r(Num(two(1)), Num(two(4)), Num(two(7)),
                    IF n = 12 THEN Num(frac) * 1000 ELSE Num(frac))
        ELSE BadTime

\* datetime.fromisoformat(timestamp_str): ok = FALSE is ValueError.  The
\* date half is exactly YYYY-MM-DD, the eleventh character any separator.
fromisoformat(t) ==
    LET bad == [ok |-> FALSE, ts |-> Timestamp(0, 0, 0, 0, 0)]
        dateOk == /\ Len(t) >= 10
                  /\ AllDigits(SubSeq(t, 1, 4)) /\ t[5] = "-"
                  /\ AllDigits(SubSeq(t, 6, 7)) /\ t[8] = "-"
                  /\ AllDigits(SubSeq(t, 9, 10))
    IN  IF ~dateOk THEN bad
        ELSE LET y  == Num(SubSeq(t, 1, 4))
                 m  == Num(SubSeq(t, 6, 7))
                 d  == Num(SubSeq(t, 9, 10))
                 tm == ParseIsoTime(SubSeq(t, 12, Len(t)))
             IN  IF /\ y >= 1 /\ m \in 1..12 /\ d >= 1
                    /\ d <= DaysInMonth(y, IF m \in 1..12 THEN m ELSE 1)
                    /\ tm.ok
                 THEN [ok |-> TRUE,
                       ts |-> Timestamp(ymd2ord(y, m, d), tm.hh, tm.mm, tm.ss, tm.us)]
                 ELSE bad

\* ------------------------------------------------------------ cache files
\* A cache file: whether the path exists, and its content.
NoFile == [exists |-> FALSE, text |-> <<>>]
FileOf(t) == [exists |-> TRUE, text |-> t]

\* What the storage does to one call: nothing wrong, open() for reading
\* raises OSError, mkdir()/open() for writing raises OSError (nothing is
\* touched), the write raises OSError after open() truncated the file,
\* unlink() raises OSError, or the stat() behind Path.exists() raises OSError
\* (PermissionError: the directory cannot be searched).
IoOutcomes ==
    {"ok", "read_err", "open_err", "flush_err", "unlink_err", "stat_err"}
ReadIo == {"ok", "read_err", "unlink_err", "stat_err"}
WriteIo == {"ok", "open_err", "flush_err"}
RemoveIo == {"ok", "unlink_err", "stat_err"}

\* ExecutionStatus
SUCCESS == <<"s", "u", "c", "c", "e", "s", "s">>
FAILED == <<"f", "a", "i", "l", "e", "d">>
NOT_DUE == <<"n", "o", "t", "_", "d", "u", "e">>
SKIPPED == <<"s", "k", "i", "p", "p", "e", "d">>

\* date | None
NoDate == [some |-> FALSE, date |-> 0]
SomeDate(d) == [some |-> TRUE, date |-> d]

\* tuple[datetime, str] | None
NoStatus == [some |-> FALSE, ts |-> Timestamp(0, 0, 0, 0, 0), status |-> <<>>]
SomeStatus(ts, st) == [some |-> TRUE, ts |-> ts, status |-> st]

\* A call that ends in an exception raised to its caller: nothing is
\* returned (val holds the empty value of the method's type), the file is as
\* the call left it.
Raise(v, file) == [val |-> v, file |-> file, raised |-> TRUE]
Raised(r) == "raised" \in DOMAIN r

\* ------------------------------------------------------------ DueDateCache
\* Every operation yields its return value and the file it leaves.  Path.exists
\* swallows only ENOENT, ENOTDIR, EBADF and ELOOP: where it is called outside
\* the try block any other OSError of the stat leaves the method.
remove_cache_file(file, io) ==
    IF io = "stat_err" THEN [val |-> FALSE, file |-> file]
    ELSE IF file.exists
    THEN IF io = "unlink_err" THEN [val |-> FALSE, file |-> file]
         ELSE [val |-> TRUE, file |-> NoFile]
    ELSE [val |-> TRUE, file |-> file]

\* A variant of read_cached_date whose ValueError branch leaves the file.
read_cached_date_keeps_corrupt(file, io) ==
    IF io = "stat_err" THEN Raise(NoDate, file)
    ELSE IF ~file.exists THEN [val |-> NoDate, file |-> file]
    ELSE IF io = "read_err" THEN [val |-> NoDate, file |-> file]
    ELSE LET date_str == strip(file.text)
             parsed   == strptime_ymd(date_str)
         IN  IF date_str = <<>> THEN [val |-> NoDate, file |-> file]
             ELSE IF parsed.ok THEN [val |-> SomeDate(parsed.date), file |-> file]
             ELSE [val |-> NoDate, file |-> file]

read_cached_date(file, io) ==
    IF io = "stat_err" THEN Raise(NoDate, file)
    ELSE IF ~file.exists THEN [val |-> NoDate, file |-> file]
    ELSE IF io = "read_err" THEN [val |-> NoDate, file |-> file]
    ELSE LET date_str == strip(file.text)
             parsed   == strptime_ymd(date_str)
         IN  IF date_str = <<>> THEN [val |-> NoDate, file |-> file]
             ELSE IF parsed.ok THEN [val |-> SomeDate(parsed.date), file |-> file]
             ELSE [val |-> NoDate, file |-> remove_cache_file(file, io).file]

\* A variant of write_cached_date with day and month swapped in the format
\* string ("%Y-%d-%m").
write_cached_date_day_first(file, renewal_date, io) ==
    IF io = "open_err" THEN [val |-> FALSE, file |-> file]
    ELSE IF io = "flush_err" THEN [val |-> FALSE, file |-> FileOf(<<>>)]
    ELSE LET ymd == ord2ymd(renewal_date)
         IN  [val |-> TRUE,
              file |-> FileOf(Pad(ymd[1], 4) \o <<"-">> \o Pad(ymd[3], 2)
                                  \o <<"-">> \o Pad(ymd[2], 2))]

\* A variant of write_cached_date with a two-digit year ("%y-%m-%d").
write_cached_date_short_year(file, renewal_date, io) ==
    IF io = "open_err" THEN [val |-> FALSE, file |-> file]
    ELSE IF io = "flush_err" THEN [val |-> FALSE, file |-> FileOf(<<>>)]
    ELSE LET ymd == ord2ymd(renewal_date)
         IN  [val |-> TRUE,
              file |-> FileOf(Pad(ymd[1] % 100, 2) \o <<"-">> \o Pad(ymd[2], 2)
                                  \o <<"-">> \o Pad(ymd[3], 2))]

write_cached_date(file, renewal_date, io) ==
    IF io = "open_err" THEN [val |-> FALSE, file |-> file]
    ELSE IF io = "flush_err" THEN [val |-> FALSE, file |-> FileOf(<<>>)]
    ELSE [val |-> TRUE, file |-> FileOf(strftime_ymd(renewal_date))]

\* A variant of is_within_range that takes the difference as it comes, without
\* abs(): a cached date ahead of current_date is always in range.
is_within_range_signed(file, current_date, range_days, io) ==
    LET rd == read_cached_date(file, io)
        diff == current_date - rd.val.date
    IN  IF Raised(rd) THEN Raise(FALSE, rd.file)
        ELSE IF ~rd.val.some THEN [val |-> FALSE, file |-> rd.file]
        ELSE [val |-> diff <= range_days, file |-> rd.file]

is_within_range(file, current_date, range_days, io) ==
    LET rd == read_cached_date(file, io)
        diff == current_date - rd.val.date
        days_diff == IF diff < 0 THEN -diff ELSE diff
    IN  IF Raised(rd) THEN Raise(FALSE, rd.file)
        ELSE IF ~rd.val.some THEN [val |-> FALSE, file |-> rd.file]
        ELSE [val |-> days_diff <= range_days, file |-> rd.file]

\* A variant of should_skip_renewal with the default for a missing file turned
\* round: no file, skip.
should_skip_renewal_first_run_skips(file, current_date, range_days, io) ==
    IF io = "stat_err" THEN Raise(FALSE, file)
    ELSE IF ~file.exists THEN [val |-> TRUE, file |-> file]
    ELSE is_within_range(file, current_date, range_days, io)

should_skip_renewal(file, current_date, range_days, io) ==
    IF io = "stat_err" THEN Raise(FALSE, file)
    ELSE IF ~file.exists THEN [val |-> FALSE, file |-> file]
    ELSE is_within_range(file, current_date, range_days, io)

\* A variant of clear_cache that unlinks without looking first: a missing file
\* is a failure.
clear_cache_missing_fails(file, io) ==
    IF file.exists THEN remove_cache_file(file, io)
    ELSE [val |-> FALSE, file |-> file]

clear_cache(file, io) == remove_cache_file(file, io)

\* ---------------------------------------------------- ExecutionStatusCache
remove_status_file(file, io) ==
    IF io = "stat_err" THEN [val |-> FALSE, file |-> file]
    ELSE IF file.exists
    THEN IF io = "unlink_err" THEN [val |-> FALSE, file |-> file]
         ELSE [val |-> TRUE, file |-> NoFile]
    ELSE [val |-> TRUE, file |-> file]

valid_statuses == {SUCCESS, FAILED, NOT_DUE, SKIPPED}

\* A variant of read_execution_status that removes the file for an
\* unrecognized status as it does for an unparsable timestamp.
read_execution_status_heals_status(file, io) ==
    IF io = "stat_err" THEN Raise(NoStatus, file)
    ELSE IF ~file.exists THEN [val |-> NoStatus, file |-> file]
    ELSE IF io = "read_err" THEN [val |-> NoStatus, file |-> file]
    ELSE LET lines == split(strip(file.text), LF)
         IN  IF Len(lines) # 2 THEN [val |-> NoStatus, file |-> file]
             ELSE LET timestamp_str == strip(lines[1])
                      status        == strip(lines[2])
                      parsed        == fromisoformat(timestamp_str)
                  IN  IF timestamp_str = <<>> \/ status = <<>>
                      THEN [val |-> NoStatus, file |-> file]
                      ELSE IF ~parsed.ok \/ status \notin valid_statuses
                      THEN [val |-> NoStatus,
                            file |-> remove_status_file(file, io).file]
                      ELSE [val |-> SomeStatus(parsed.ts, status), file |-> file]

\* A variant of read_execution_status that validates the status before it
\* parses the timestamp.
read_execution_status_status_first(file, io) ==
    IF io = "stat_err" THEN Raise(NoStatus, file)
    ELSE IF ~file.exists THEN [val |-> NoStatus, file |-> file]
    ELSE IF io = "read_err" THEN [val |-> NoStatus, file |-> file]
    ELSE LET lines == split(strip(file.text), LF)
         IN  IF Len(lines) # 2 THEN [val |-> NoStatus, file |-> file]
             ELSE LET timestamp_str == strip(lines[1])
                      status        == strip(lines[2])
                      parsed        == fromisoformat(timestamp_str)
                  IN  IF timestamp_str = <<>> \/ status = <<>>
                      THEN [val |-> NoStatus, file |-> file]
                      ELSE IF status \notin valid_statuses
                      THEN [val |-> NoStatus, file |-> file]
                      ELSE IF ~parsed.ok
                      THEN [val |-> NoStatus,
                            file |-> remove_status_file(file, io).file]
                      ELSE [val |-> SomeStatus(parsed.ts, status), file |-> file]

read_execution_status(file, io) ==
    IF io = "stat_err" THEN Raise(NoStatus, file)
    ELSE IF ~file.exists THEN [val |-> NoStatus, file |-> file]
    ELSE IF io = "read_err" THEN [val |-> NoStatus, file |-> file]
    ELSE LET lines == split(strip(file.text), LF)
         IN  IF Len(lines) # 2 THEN [val |-> NoStatus, file |-> file]
             ELSE LET timestamp_str == strip(lines[1])
                      status        == strip(lines[2])
                      parsed        == fromisoformat(timestamp_str)
                  IN  IF timestamp_str = <<>> \/ status = <<>>
                      THEN [val |-> NoStatus, file |-> file]
                      ELSE IF ~parsed.ok
                      THEN [val |-> NoStatus,
                            file |-> remove_status_file(file, io).file]
                      ELSE IF status \notin valid_statuses
                      THEN [val |-> NoStatus, file |-> file]
                      ELSE [val |-> SomeStatus(parsed.ts, status), file |-> file]

\* A variant of write_execution_status that writes the status line first.
write_execution_status_swapped(file, status, timestamp, io) ==
    IF io = "open_err" THEN [val |-> FALSE, file |-> file]
    ELSE IF io = "flush_err" THEN [val |-> FALSE, file |-> FileOf(<<>>)]
    ELSE [val |-> TRUE,
          file |-> FileOf(status \o <<LF>> \o isoformat(timestamp))]

\* A variant of write_execution_status that writes the date of the timestamp
\* only (timestamp.date().isoformat()).
write_execution_status_date_only(file, status, timestamp, io) ==
    IF io = "open_err" THEN [val |-> FALSE, file |-> file]
    ELSE IF io = "flush_err" THEN [val |-> FALSE, file |-> FileOf(<<>>)]
    ELSE [val |-> TRUE,
          file |-> FileOf(strftime_ymd(timestamp.date) \o <<LF>> \o status)]

\* A variant of write_execution_status that reports success and leaves the
\* file for later.
write_execution_status_deferred(file, status, timestamp, io) ==
    [val |-> TRUE, file |-> file]

write_execution_status(file, status, timestamp, io) ==
    IF io = "open_err" THEN [val |-> FALSE, file |-> file]
    ELSE IF io = "flush_err" THEN [val |-> FALSE, file |-> FileOf(<<>>)]
    ELSE [val |-> TRUE,
          file |-> FileOf(isoformat(timestamp) \o <<LF>> \o status)]

\* Variants of should_retry_renewal, each with one slip in it.
\* The success check is missing: a same-day success falls through to retry.
should_retry_no_success_check(file, renewal_date, days_before, current_date, io) ==
    LET days_until_renewal == renewal_date - current_date
        in_renewal_window  == 0 <= days_until_renewal
                              /\ days_until_renewal <= days_before
        rd == read_execution_status(file, io)
    IN  IF ~in_renewal_window THEN [val |-> TRUE, file |-> file]
        ELSE IF Raised(rd) THEN Raise(FALSE, rd.file)
        ELSE [val |-> TRUE, file |-> rd.file]

\* A same-day failed record blocks like a success.
should_retry_failed_blocks(file, renewal_date, days_before, current_date, io) ==
    LET days_until_renewal == renewal_date - current_date
        in_renewal_window  == 0 <= days_until_renewal
                              /\ days_until_renewal <= days_before
        rd == read_execution_status(file, io)
    IN  IF ~in_renewal_window THEN [val |-> TRUE, file |-> file]
        ELSE IF Raised(rd) THEN Raise(FALSE, rd.file)
        ELSE IF ~rd.val.some THEN [val |-> TRUE, file |-> rd.file]
        ELSE IF rd.val.ts.date # current_date THEN [val |-> TRUE, file |-> rd.file]
        ELSE IF rd.val.status \in {SUCCESS, FAILED} THEN [val |-> FALSE, file |-> rd.file]
        ELSE [val |-> TRUE, file |-> rd.file]

\* The record's date is not compared with today.
should_retry_no_date_check(file, renewal_date, days_before, current_date, io) ==
    LET days_until_renewal == renewal_date - current_date
        in_renewal_window  == 0 <= days_until_renewal
                              /\ days_until_renewal <= days_before
        rd == read_execution_status(file, io)
    IN  IF ~in_renewal_window THEN [val |-> TRUE, file |-> file]
        ELSE IF Raised(rd) THEN Raise(FALSE, rd.file)
        ELSE IF ~rd.val.some THEN [val |-> TRUE, file |-> rd.file]
        ELSE IF rd.val.status = SUCCESS THEN [val |-> FALSE, file |-> rd.file]
        ELSE [val |-> TRUE, file |-> rd.file]

\* The window has no upper end: any due date from today on is inside.
should_retry_open_window(file, renewal_date, days_before, current_date, io) ==
    LET days_until_renewal == renewal_date - current_date
        in_renewal_window  == 0 <= days_until_renewal
        rd == read_execution_status(file, io)
    IN  IF ~in_renewal_window THEN [val |-> TRUE, file |-> file]
        ELSE IF Raised(rd) THEN Raise(FALSE, rd.file)
        ELSE IF ~rd.val.some THEN [val |-> TRUE, file |-> rd.file]
        ELSE IF rd.val.ts.date # current_date THEN [val |-> TRUE, file |-> rd.file]
        ELSE IF rd.val.status = SUCCESS THEN [val |-> FALSE, file |-> rd.file]
        ELSE [val |-> TRUE, file |-> rd.file]

\* No record read means no retry.
should_retry_absent_blocks(file, renewal_date, days_before, current_date, io) ==
    LET days_until_renewal == renewal_date - current_date
        in_renewal_window  == 0 <= days_until_renewal
                              /\ days_until_renewal <= days_before
        rd == read_execution_status(file, io)
    IN  IF ~in_renewal_window THEN [val |-> TRUE, file |-> file]
        ELSE IF Raised(rd) THEN Raise(FALSE, rd.file)
        ELSE IF ~rd.val.some THEN [val |-> FALSE, file |-> rd.file]
        ELSE IF rd.val.ts.date # current_date THEN [val |-> TRUE, file |-> rd.file]
        ELSE IF rd.val.status = SUCCESS THEN [val |-> FALSE, file |-> rd.file]
        ELSE [val |-> TRUE, file |-> rd.file]

\* A file that is there but yields no record counts as handled.
should_retry_unreadable_blocks(file, renewal_date, days_before, current_date, io) ==
    LET days_until_renewal == renewal_date - current_date
        in_renewal_window  == 0 <= days_until_renewal
                              /\ days_until_renewal <= days_before
        rd == read_execution_status(file, io)
    IN  IF ~in_renewal_window THEN [val |-> TRUE, file |-> file]
        ELSE IF Raised(rd) THEN Raise(FALSE, rd.file)
        ELSE IF ~rd.val.some THEN [val |-> ~file.exists, file |-> rd.file]
        ELSE IF rd.val.ts.date # current_date THEN [val |-> TRUE, file |-> rd.file]
        ELSE IF rd.val.status = SUCCESS THEN [val |-> FALSE, file |-> rd.file]
        ELSE [val |-> TRUE, file |-> rd.file]

\* A variant of should_retry_renewal that reads the status file before it
\* looks at the window.
should_retry_reads_first(file, renewal_date, days_before, current_date, io) ==
    LET days_until_renewal == renewal_date - current_date
        in_renewal_window  == 0 <= days_until_renewal
                              /\ days_until_renewal <= days_before
        rd == read_execution_status(file, io)
    IN  IF Raised(rd) THEN Raise(FALSE, rd.file)
        ELSE IF ~in_renewal_window THEN [val |-> TRUE, file |-> rd.file]
        ELSE IF ~rd.val.some THEN [val |-> TRUE, file |-> rd.file]
        ELSE IF rd.val.ts.date # current_date THEN [val |-> TRUE, file |-> rd.file]
        ELSE IF rd.val.status = SUCCESS THEN [val |-> FALSE, file |-> rd.file]
        ELSE [val |-> TRUE, file |-> rd.file]

\* current_date is what date.today() returns inside the call.
should_retry_renewal(file, renewal_date, days_before, current_date, io) ==
    LET days_until_renewal == renewal_date - current_date
        in_renewal_window  == 0 <= days_until_renewal
                              /\ days_until_renewal <= days_before
        rd == read_execution_status(file, io)
    IN  IF ~in_renewal_window THEN [val |-> TRUE, file |-> file]
        ELSE IF Raised(rd) THEN Raise(FALSE, rd.file)
        ELSE IF ~rd.val.some THEN [val |-> TRUE, file |-> rd.file]
        ELSE IF rd.val.ts.date # current_date THEN [val |-> TRUE, file |-> rd.file]
        ELSE IF rd.val.status = SUCCESS THEN [val |-> FALSE, file |-> rd.file]
        ELSE IF rd.val.status \in {FAILED, NOT_DUE} THEN [val |-> TRUE, file |-> rd.file]
        ELSE IF rd.val.status = SKIPPED THEN [val |-> TRUE, file |-> rd.file]
        ELSE [val |-> TRUE, file |-> rd.file]

clear_status(file, io) == remove_status_file(file, io)

\* ------------------------------------------------- BasePage (web/pages/base.py)
\* A Locator: a primary strategy and selector (here one key), a description
\* and an ordered sequence of fallback locators.
Locator(n) ==
    [key |-> 0, description |-> "renew button",
     fallbacks |-> [i \in 1..n |-> [key |-> i, description |-> "fallback"]]]

Locators == {Locator(n) : n \in 0..MaxFallbacks}

\* timeout=None
NoTimeout == -1
\* BasePage.__init__(driver, timeout=30)
DefaultTimeout == 30
\* is_element_present(locator, timeout=5)
ProbeTimeout == 5

ArgTimeouts == {NoTimeout, 0, ProbeTimeout}

\* `timeout or self.timeout`: None and 0 are both falsy
wait_timeout(timeout) ==
    IF timeout = NoTimeout \/ timeout = 0 THEN DefaultTimeout ELSE timeout

\* What WebDriverWait(...).until(...) does for one key: the element is there,
\* the wait times out, or the driver fails in some other way.
WaitOutcomes == {"found", "timeout", "error"}

\* What the browser does during one call: the outcome of every wait, whether
\* each click or script of the four strategies goes through, and the text read.
NoDrv ==
    [present |-> [k \in 0..MaxFallbacks |-> "timeout"],
     clickable |-> [k \in 0..MaxFallbacks |-> "timeout"],
     click1 |-> FALSE, js2 |-> FALSE, scroll3 |-> FALSE, click3 |-> FALSE,
     scroll4 |-> FALSE, js4 |-> FALSE, textRaises |-> FALSE, text |-> <<>>]

\* the outcomes of the waits on the keys a locator with n fallbacks names
WaitsOf(n) ==
    {f \in [0..MaxFallbacks -> WaitOutcomes] :
        \A k \in 0..MaxFallbacks : k > n => f[k] = "timeout"}

ElementTexts == {<<>>, <<" ">>, <<"$", "2", "5">>, <<" ", "$", "2", "5", LF>>}

\* entries of the driver log
Poll(key, budget, cond) == [ev |-> "wait", key |-> key, budget |-> budget, cond |-> cond]
Act(ev, el) == [ev |-> ev, key |-> el, budget |-> 0, cond |-> ""]

\* results
NoRes == [kind |-> "", el |-> 0, ok |-> FALSE, text |-> <<>>, msg |-> "",
          desc |-> "", count |-> 0]
Element(key) == [NoRes EXCEPT !.kind = "element", !.el = key]
Bool(b) == [NoRes EXCEPT !.kind = "bool", !.ok = b]
Text(t) == [NoRes EXCEPT !.kind = "text", !.text = t]
ElementNotFoundError(msg, desc, count) ==
    [NoRes EXCEPT !.kind = "ElementNotFoundError", !.msg = msg, !.desc = desc,
                  !.count = count]

RECURSIVE TryFallbacks(_, _, _, _, _)
\* for fallback in locator.fallbacks: wait, return on success, else continue
TryFallbacks(fallbacks, i, budget, drv, log) ==
    IF i > Len(fallbacks) THEN [found |-> FALSE, el |-> 0, log |-> log]
    ELSE LET log2 == Append(log, Poll(fallbacks[i].key, budget, "presence"))
         IN  IF drv.present[fallbacks[i].key] = "found"
             THEN [found |-> TRUE, el |-> fallbacks[i].key, log |-> log2]
             ELSE TryFallbacks(fallbacks, i + 1, budget, drv, log2)

\* A variant of wait_for_element that walks the fallbacks from the last one.
wait_for_element_fallbacks_reversed(locator, timeout, drv) ==
    LET budget == wait_timeout(timeout)
        n == Len(locator.fallbacks)
        first == <<Poll(locator.key, budget, "presence")>>
    IN  IF drv.present[locator.key] = "found"
        THEN [res |-> Element(locator.key), log |-> first]
        ELSE LET fb == TryFallbacks([i \in 1..n |-> locator.fallbacks[n + 1 - i]],
                                    1, budget, drv, first)
             IN  IF fb.found THEN [res |-> Element(fb.el), log |-> fb.log]
                 ELSE [res |-> ElementNotFoundError("Element not found",
                                   locator.description, 1 + n),
                       log |-> fb.log]

\* A variant of wait_for_element whose message counts the fallbacks only.
wait_for_element_counts_fallbacks(locator, timeout, drv) ==
    LET budget == wait_timeout(timeout)
        first == <<Poll(locator.key, budget, "presence")>>
    IN  IF drv.present[locator.key] = "found"
        THEN [res |-> Element(locator.key), log |-> first]
        ELSE LET fb == TryFallbacks(locator.fallbacks, 1, budget, drv, first)
             IN  IF fb.found THEN [res |-> Element(fb.el), log |-> fb.log]
                 ELSE [res |-> ElementNotFoundError("Element not found",
                                   locator.description, Len(locator.fallbacks)),
                       log |-> fb.log]

\* A variant of wait_for_element that waits for the primary once more before
\* giving up.
wait_for_element_retries_primary(locator, timeout, drv) ==
    LET budget == wait_timeout(timeout)
        first == <<Poll(locator.key, budget, "presence")>>
    IN  IF drv.present[locator.key] = "found"
        THEN [res |-> Element(locator.key), log |-> first]
        ELSE LET fb == TryFallbacks(locator.fallbacks, 1, budget, drv, first)
             IN  IF fb.found THEN [res |-> Element(fb.el), log |-> fb.log]
                 ELSE [res |-> ElementNotFoundError("Element not found",
                                   locator.description,
                                   1 + Len(locator.fallbacks)),
                       log |-> Append(fb.log, Poll(locator.key, budget, "presence"))]

wait_for_element(locator, timeout, drv) ==
    LET budget == wait_timeout(timeout)
        first == <<Poll(locator.key, budget, "presence")>>
    IN  IF drv.present[locator.key] = "found"
        THEN [res |-> Element(locator.key), log |-> first]
        ELSE LET fb == TryFallbacks(locator.fallbacks, 1, budget, drv, first)
             IN  IF fb.found THEN [res |-> Element(fb.el), log |-> fb.log]
                 ELSE [res |-> ElementNotFoundError("Element not found",
                                   locator.description,
                                   1 + Len(locator.fallbacks)),
                       log |-> fb.log]

\* A variant of wait_for_clickable that goes on to the fallbacks.
wait_for_clickable_tries_fallbacks(locator, timeout, drv) ==
    LET budget == wait_timeout(timeout)
        n == Len(locator.fallbacks)
        hits == {i \in 1..n : drv.clickable[locator.fallbacks[i].key] = "found"}
        upto == IF hits = {} THEN n
                ELSE CHOOSE i \in hits : \A j \in hits : i <= j
        first == <<Poll(locator.key, budget, "clickable")>>
        more == [i \in 1..upto |-> Poll(locator.fallbacks[i].key, budget, "clickable")]
    IN  IF drv.clickable[locator.key] = "found"
        THEN [res |-> Element(locator.key), log |-> first]
        ELSE IF hits # {}
        THEN [res |-> Element(locator.fallbacks[upto].key), log |-> first \o more]
        ELSE [res |-> ElementNotFoundError("Element not clickable",
                          locator.description, 0),
              log |-> first \o more]

wait_for_clickable(locator, timeout, drv) ==
    LET budget == wait_timeout(timeout)
        first == <<Poll(locator.key, budget, "clickable")>>
    IN  IF drv.clickable[locator.key] = "found"
        THEN [res |-> Element(locator.key), log |-> first]
        ELSE [res |-> ElementNotFoundError("Element not clickable",
                          locator.description, 0),
              log |-> first]

\* the driver calls of the four click strategies on one element
Strategy1(el, drv) == [ok |-> drv.click1, log |-> <<Act("click", el)>>]
Strategy2(el, drv) == [ok |-> drv.js2, log |-> <<Act("script_click", el)>>]
Strategy3(el, drv) ==
    IF drv.scroll3
    THEN [ok |-> drv.click3,
          log |-> <<Act("scroll", el), Act("sleep", el), Act("click", el)>>]
    ELSE [ok |-> FALSE, log |-> <<Act("scroll", el)>>]
Strategy4(el, drv) ==
    IF drv.scroll4
    THEN [ok |-> drv.js4,
          log |-> <<Act("scroll", el), Act("sleep", el), Act("script_click", el)>>]
    ELSE [ok |-> FALSE, log |-> <<Act("scroll", el)>>]

\* A variant of click_with_strategies that runs the script click first.
click_with_strategies_script_first(locator, drv) ==
    LET r == wait_for_element(locator, NoTimeout, drv)
        el == r.res.el
        s1 == Strategy1(el, drv)
        s2 == Strategy2(el, drv)
        s3 == Strategy3(el, drv)
        s4 == Strategy4(el, drv)
    IN  IF r.res.kind # "element" THEN r
        ELSE IF s2.ok THEN [res |-> Bool(TRUE), log |-> r.log \o s2.log]
        ELSE IF s1.ok THEN [res |-> Bool(TRUE), log |-> r.log \o s2.log \o s1.log]
        ELSE IF s3.ok
        THEN [res |-> Bool(TRUE), log |-> r.log \o s2.log \o s1.log \o s3.log]
        ELSE IF s4.ok
        THEN [res |-> Bool(TRUE),
              log |-> r.log \o s2.log \o s1.log \o s3.log \o s4.log]
        ELSE [res |-> ElementNotFoundError("Failed to click element",
                          locator.description, 0),
              log |-> r.log \o s2.log \o s1.log \o s3.log \o s4.log]

\* A variant of click_with_strategies that looks the element up again before
\* every strategy after the first.
click_with_strategies_resolves_again(locator, drv) ==
    LET r == wait_for_element(locator, NoTimeout, drv)
        el == r.res.el
        s1 == Strategy1(el, drv)
        s2 == Strategy2(el, drv)
        s3 == Strategy3(el, drv)
        s4 == Strategy4(el, drv)
    IN  IF r.res.kind # "element" THEN r
        ELSE IF s1.ok THEN [res |-> Bool(TRUE), log |-> r.log \o s1.log]
        ELSE IF s2.ok
        THEN [res |-> Bool(TRUE), log |-> r.log \o s1.log \o r.log \o s2.log]
        ELSE IF s3.ok
        THEN [res |-> Bool(TRUE),
              log |-> r.log \o s1.log \o r.log \o s2.log \o r.log \o s3.log]
        ELSE IF s4.ok
        THEN [res |-> Bool(TRUE),
              log |-> r.log \o s1.log \o r.log \o s2.log \o r.log \o s3.log
                      \o r.log \o s4.log]
        ELSE [res |-> ElementNotFoundError("Failed to click element",
                          locator.description, 0),
              log |-> r.log \o s1.log \o r.log \o s2.log \o r.log \o s3.log
                      \o r.log \o s4.log]

click_with_strategies(locator, drv) ==
    LET r == wait_for_element(locator, NoTimeout, drv)
        el == r.res.el
        s1 == Strategy1(el, drv)
        s2 == Strategy2(el, drv)
        s3 == Strategy3(el, drv)
        s4 == Strategy4(el, drv)
    IN  IF r.res.kind # "element" THEN r
        ELSE IF s1.ok THEN [res |-> Bool(TRUE), log |-> r.log \o s1.log]
        ELSE IF s2.ok THEN [res |-> Bool(TRUE), log |-> r.log \o s1.log \o s2.log]
        ELSE IF s3.ok
        THEN [res |-> Bool(TRUE), log |-> r.log \o s1.log \o s2.log \o s3.log]
        ELSE IF s4.ok
        THEN [res |-> Bool(TRUE),
              log |-> r.log \o s1.log \o s2.log \o s3.log \o s4.log]
        ELSE [res |-> ElementNotFoundError("Failed to click element",
                          locator.description, 0),
              log |-> r.log \o s1.log \o s2.log \o s3.log \o s4.log]

\* A variant of get_text_safe that answers the empty string when it fails.
get_text_safe_empty_on_failure(locator, drv) ==
    LET r == wait_for_element(locator, NoTimeout, drv)
        read == Append(r.log, Act("text", r.res.el))
    IN  IF r.res.kind # "element" THEN [res |-> Text(<<>>), log |-> r.log]
        ELSE IF drv.textRaises THEN [res |-> Text(<<>>), log |-> read]
        ELSE [res |-> Text(strip(drv.text)), log |-> read]

get_text_safe(locator, drv) ==
    LET r == wait_for_element(locator, NoTimeout, drv)
        read == Append(r.log, Act("text", r.res.el))
        failed == ElementNotFoundError("Failed to get text from",
                                       locator.description, 0)
    IN  IF r.res.kind # "element" THEN [res |-> failed, log |-> r.log]
        ELSE IF drv.textRaises THEN [res |-> failed, log |-> read]
        ELSE [res |-> Text(strip(drv.text)), log |-> read]

\* A variant of is_element_present that catches the timeout only.
is_element_present_catches_timeout_only(locator, timeout, drv) ==
    LET probe == <<Poll(locator.key, timeout, "presence")>>
    IN  IF drv.present[locator.key] = "found"
        THEN [res |-> Bool(TRUE), log |-> probe]
        ELSE IF drv.present[locator.key] = "timeout"
        THEN [res |-> Bool(FALSE), log |-> probe]
        ELSE [res |-> [NoRes EXCEPT !.kind = "WebDriverException"], log |-> probe]

\* A variant of is_element_present that goes on to the fallbacks as
\* wait_for_element does.
is_element_present_tries_fallbacks(locator, timeout, drv) ==
    LET fb == TryFallbacks(locator.fallbacks, 1, timeout, drv,
                           <<Poll(locator.key, timeout, "presence")>>)
    IN  IF drv.present[locator.key] = "found"
        THEN [res |-> Bool(TRUE), log |-> <<Poll(locator.key, timeout, "presence")>>]
        ELSE [res |-> Bool(fb.found), log |-> fb.log]

is_element_present(locator, timeout, drv) ==
    LET probe == <<Poll(locator.key, timeout, "presence")>>
    IN  IF drv.present[locator.key] = "found"
        THEN [res |-> Bool(TRUE), log |-> probe]
        ELSE [res |-> Bool(FALSE), log |-> probe]

\* DashboardPage.is_on_dashboard (web/pages/dashboard.py); RENEWAL_DATE is
\* TelloLocators.RENEWAL_DATE.
is_on_dashboard(RENEWAL_DATE, drv) ==
    is_element_present(RENEWAL_DATE, ProbeTimeout, drv)

\* ------------------------------------ EmailNotifier (notification/email.py)
\* self._server: None, or an smtplib.SMTP object with what has been done on it
NoServer == [set |-> FALSE, tls |-> FALSE, auth |-> FALSE]
Server(tls, auth) == [set |-> TRUE, tls |-> tls, auth |-> auth]

\* where a call of connect ends: all three steps done, or the exception of
\* smtplib.SMTP(...), of starttls or of login
ConnectOutcomes == {"ok", "smtp_err", "starttls_err", "login_err"}
QuitOutcomes == {"ok", "quit_err"}
SendOutcomes == {"ok", "send_err"}

\* Each method maps self._server to the new self._server, the exception that
\* leaves the method ("" for none) and the connection a message went over.
connect(_server, use_tls, out) ==
    IF out = "smtp_err"
    THEN [server |-> _server, raised |-> "OSError", sent |-> <<>>]
    ELSE IF use_tls /\ out = "starttls_err"
    THEN [server |-> Server(FALSE, FALSE), raised |-> "SMTPException", sent |-> <<>>]
    ELSE IF out = "login_err"
    THEN [server |-> Server(use_tls, FALSE), raised |-> "SMTPException", sent |-> <<>>]
    ELSE [server |-> Server(use_tls, TRUE), raised |-> "", sent |-> <<>>]

disconnect(_server, out) ==
    IF _server.set
    THEN [server |-> NoServer, raised |-> "", sent |-> <<>>]
    ELSE [server |-> _server, raised |-> "", sent |-> <<>>]

_send_message(_server, out) ==
    IF ~_server.set
    THEN [server |-> _server, raised |-> "RuntimeError", sent |-> <<>>]
    ELSE IF out = "send_err"
    THEN [server |-> _server, raised |-> "SMTPException", sent |-> <<>>]
    ELSE [server |-> _server, raised |-> "", sent |-> <<_server>>]

\* ------------------------------------------------------------------- state
VARIABLES
    today,        \* date.today(), an ordinal
    tick,         \* the position of the wall clock within the day
    dueFile,      \* the DUE_DATE file
    statusFile,   \* the EXEC_STATUS file
    ret,          \* the call of a cache method that is returning
    siteDue,      \* the due date the site shows
    daysBefore,   \* config.renewal.days_before_renewal
    pc,           \* where the engine's run is: idle, session, renewing
    browser,      \* whether a browser session is open
    run,          \* what the current or the last run did
    renewedToday, \* renewals performed on the site on this calendar day
    runsToday,    \* runs started on this calendar day
    page,         \* the last call of a BasePage method: input, driver log, result
    mail          \* an EmailNotifier: its _server, its last call, what it sent

vars == <<today, tick, dueFile, statusFile, ret, siteDue, daysBefore, pc,
          browser, run, renewedToday, runsToday, page, mail>>

engineVars == <<siteDue, daysBefore, pc, browser, run, renewedToday, runsToday>>

\* The time of day the wall clock shows at position k; every second position
\* carries microseconds.
TimeOfTick(d, k) ==
    Timestamp(d, 9 + k, (7 * k) % 60, (13 * k) % 60,
              IF k % 2 = 0 THEN 0 ELSE (123456 * k) % 1000000)

\* datetime.now()
Now == TimeOfTick(today, tick)

\* Arguments the callers of the cache methods pass.
ArgDates == (Epoch - 1) .. (Epoch + MaxDay + 2)
ArgRanges == 0 .. (MaxDaysBefore + 1)
ArgStamps == {TimeOfTick(d, 0) : d \in Days}
ArgStatuses ==
    valid_statuses \cup {<<"d", "o", "n", "e">>, SUCCESS \o <<" ">>}

\* Contents a user's hand leaves in the files (both are plain text, open to
\* manual editing): empty, blank, not a date, a date with a line feed after
\* it, a date without zero padding, a day the month does not have.
DueSamples ==
    { <<>>,
      <<" ", LF>>,
      <<"t", "b", "d">>,
      strftime_ymd(Epoch + 1) \o <<LF>>,
      <<"2", "0", "2", "5", "-", "1", "-", "1">>,
      <<"2", "0", "2", "5", "-", "0", "2", "-", "3", "0">> }

\* ... and in the status file: empty, one line, three lines, a timestamp
\* that does not parse, a status that is none of the four, a record with a
\* trailing line feed, a record whose timestamp is a bare date, a record with
\* neither a timestamp that parses nor a status of the four.
StatusSamples ==
    { <<>>,
      SUCCESS,
      isoformat(TimeOfTick(Epoch, 0)) \o <<LF>> \o SUCCESS \o <<LF>> \o SUCCESS,
      <<"n", "o", "w", LF>> \o SUCCESS,
      isoformat(TimeOfTick(Epoch + 1, 0)) \o <<LF>> \o <<"d", "o", "n", "e">>,
      isoformat(TimeOfTick(Epoch + 1, 1)) \o <<LF>> \o SUCCESS \o <<LF>>,
      strftime_ymd(Epoch) \o <<LF, " ">> \o FAILED,
      <<"n", "o", "w", LF, "d", "o", "n", "e">> }

\* No call is returning.  A returning call keeps its arguments, the fault its
\* I/O met, what it returned, whether its file was there when it began, and,
\* for a read of the status file, the text the file held.
NoRet ==
    [op |-> "none", date |-> 0, days |-> 0, io |-> "ok", val |-> FALSE,
     dval |-> NoDate, sval |-> NoStatus, had |-> FALSE, raised |-> FALSE,
     text |-> <<>>]

Ret(op, date, days, io, val) ==
    [op |-> op, date |-> date, days |-> days, io |-> io, val |-> val,
     dval |-> NoDate, sval |-> NoStatus, had |-> FALSE, raised |-> FALSE,
     text |-> <<>>]

NoPage == [op |-> "", locator |-> Locator(0), timeout |-> NoTimeout,
           drv |-> NoDrv, res |-> NoRes, log |-> <<>>]

\* EmailNotifier.__init__: self._server = None, nothing called, nothing sent
NoMail == [use_tls |-> FALSE, server |-> NoServer, op |-> "", raised |-> "",
           last |-> "none", sent |-> <<>>]

NoRun ==
    [result |-> "none", opened |-> FALSE, attempted |-> FALSE,
     wroteDue |-> FALSE, wroteStatus |-> FALSE]

Init ==
    /\ today = Epoch
    /\ tick = 0
    /\ dueFile = NoFile
    /\ statusFile = NoFile
    /\ ret = NoRet
    /\ siteDue \in Epoch .. (Epoch + MaxDay)
    /\ daysBefore \in 0..MaxDaysBefore
    /\ pc = "idle"
    /\ browser = FALSE
    /\ run = NoRun
    /\ renewedToday = 0
    /\ runsToday = 0
    /\ page = NoPage
    /\ mail = NoMail

\* ------------------------------------------------------------- environment
\* Midnight passes between two runs.
NextDay ==
    /\ pc = "idle"
    /\ ret = NoRet
    /\ today < Epoch + MaxDay
    /\ today' = today + 1
    /\ tick' = 0
    /\ run' = NoRun
    /\ renewedToday' = 0
    /\ runsToday' = 0
    /\ UNCHANGED <<dueFile, statusFile, ret, siteDue, daysBefore, pc, browser>>
    /\ UNCHANGED <<page, mail>>

\* The wall clock moves on.
Tick ==
    /\ ret = NoRet
    /\ tick < MaxTick
    /\ tick' = tick + 1
    /\ UNCHANGED <<today, dueFile, statusFile, ret, engineVars>>
    /\ UNCHANGED <<page, mail>>

\* Somebody edits or deletes the due-date file between two runs.
EditDueFile ==
    /\ pc = "idle"
    /\ ret = NoRet
    /\ \E f \in {NoFile} \cup {FileOf(t) : t \in DueSamples} : dueFile' = f
    /\ run' = NoRun
    /\ UNCHANGED <<today, tick, statusFile, ret, siteDue, daysBefore, pc,
                   browser, renewedToday, runsToday>>
    /\ UNCHANGED <<page, mail>>

\* Somebody edits or deletes the status file between two runs.
EditStatusFile ==
    /\ pc = "idle"
    /\ ret = NoRet
    /\ \E f \in {NoFile} \cup {FileOf(t) : t \in StatusSamples} : statusFile' = f
    /\ run' = NoRun
    /\ UNCHANGED <<today, tick, dueFile, ret, siteDue, daysBefore, pc,
                   browser, renewedToday, runsToday>>
    /\ UNCHANGED <<page, mail>>

\* --------------------------------------------- calls of the cache methods
\* The caller takes the result; the next call can start.
Return ==
    /\ ret # NoRet
    /\ ret' = NoRet
    /\ UNCHANGED <<today, tick, dueFile, statusFile, engineVars>>
    /\ UNCHANGED <<page, mail>>

CallReadCachedDate ==
    /\ ret = NoRet
    /\ \E io \in ReadIo :
        LET r == read_cached_date(dueFile, io)
        IN  /\ dueFile' = r.file
            /\ ret' = [Ret("read_cached_date", 0, 0, io, r.val.some)
                           EXCEPT !.dval = r.val, !.had = dueFile.exists,
                                  !.raised = Raised(r)]
    /\ UNCHANGED <<today, tick, statusFile, engineVars>>
    /\ UNCHANGED <<page, mail>>

CallWriteCachedDate ==
    /\ ret = NoRet
    /\ \E d \in ArgDates, io \in WriteIo :
        LET r == write_cached_date(dueFile, d, io)
        IN  /\ dueFile' = r.file
            /\ ret' = [Ret("write_cached_date", d, 0, io, r.val) EXCEPT !.had = dueFile.exists]
    /\ UNCHANGED <<today, tick, statusFile, engineVars>>
    /\ UNCHANGED <<page, mail>>

CallIsWithinRange ==
    /\ ret = NoRet
    /\ \E d \in ArgDates, n \in ArgRanges, io \in ReadIo :
        LET r == is_within_range(dueFile, d, n, io)
        IN  /\ dueFile' = r.file
            /\ ret' = [Ret("is_within_range", d, n, io, r.val)
                           EXCEPT !.had = dueFile.exists,
                                  !.raised = Raised(r)]
    /\ UNCHANGED <<today, tick, statusFile, engineVars>>
    /\ UNCHANGED <<page, mail>>

CallShouldSkipRenewal ==
    /\ ret = NoRet
    /\ \E d \in ArgDates, n \in ArgRanges, io \in ReadIo :
        LET r == should_skip_renewal(dueFile, d, n, io)
        IN  /\ dueFile' = r.file
            /\ ret' = [Ret("should_skip_renewal", d, n, io, r.val)
                           EXCEPT !.had = dueFile.exists,
                                  !.raised = Raised(r)]
    /\ UNCHANGED <<today, tick, statusFile, engineVars>>
    /\ UNCHANGED <<page, mail>>

CallClearCache ==
    /\ ret = NoRet
    /\ \E io \in RemoveIo :
        LET r == clear_cache(dueFile, io)
        IN  /\ dueFile' = r.file
            /\ ret' = [Ret("clear_cache", 0, 0, io, r.val) EXCEPT !.had = dueFile.exists]
    /\ UNCHANGED <<today, tick, statusFile, engineVars>>
    /\ UNCHANGED <<page, mail>>

CallReadExecutionStatus ==
    /\ ret = NoRet
    /\ \E io \in ReadIo :
        LET r == read_execution_status(statusFile, io)
        IN  /\ statusFile' = r.file
            /\ ret' = [Ret("read_execution_status", 0, 0, io, r.val.some)
                           EXCEPT !.sval = r.val,
                                  !.had = statusFile.exists,
                                  !.raised = Raised(r),
                                  !.text = statusFile.text]
    /\ UNCHANGED <<today, tick, dueFile, engineVars>>
    /\ UNCHANGED <<page, mail>>

\* timestamp = None stands for datetime.now(); sval keeps what was passed.
CallWriteExecutionStatus ==
    /\ ret = NoRet
    /\ \E st \in ArgStatuses, ts \in ArgStamps \cup {Now}, io \in WriteIo :
        LET r == write_execution_status(statusFile, st, ts, io)
        IN  /\ statusFile' = r.file
            /\ ret' = [Ret("write_execution_status", 0, 0, io, r.val)
                           EXCEPT !.sval = SomeStatus(ts, st),
                                  !.had = statusFile.exists]
    /\ UNCHANGED <<today, tick, dueFile, engineVars>>
    /\ UNCHANGED <<page, mail>>

CallShouldRetryRenewal ==
    /\ ret = NoRet
    /\ \E d \in ArgDates, n \in ArgRanges, io \in ReadIo :
        LET r == should_retry_renewal(statusFile, d, n, today, io)
        IN  /\ statusFile' = r.file
            /\ ret' = [Ret("should_retry_renewal", d, n, io, r.val)
                           EXCEPT !.had = statusFile.exists,
                                  !.raised = Raised(r)]
    /\ UNCHANGED <<today, tick, dueFile, engineVars>>
    /\ UNCHANGED <<page, mail>>

CallClearStatus ==
    /\ ret = NoRet
    /\ \E io \in RemoveIo :
        LET r == clear_status(statusFile, io)
        IN  /\ statusFile' = r.file
            /\ ret' = [Ret("clear_status", 0, 0, io, r.val) EXCEPT !.had = statusFile.exists]
    /\ UNCHANGED <<today, tick, dueFile, engineVars>>
    /\ UNCHANGED <<page, mail>>

\* The engine does not run while the cache objects are exercised directly.
InitApi == Init /\ siteDue = Epoch /\ daysBefore = 0

NextStatusApi ==
    \/ NextDay
    \/ Tick
    \/ EditDueFile
    \/ EditStatusFile
    \/ CallReadExecutionStatus
    \/ CallWriteExecutionStatus
    \/ CallShouldRetryRenewal
    \/ CallClearStatus
    \/ Return

\* ExecutionStatusCache under arbitrary callers.
SpecStatusApi == InitApi /\ [][NextStatusApi]_vars

NextDueApi ==
    \/ NextDay
    \/ Tick
    \/ EditDueFile
    \/ CallReadCachedDate
    \/ CallWriteCachedDate
    \/ CallIsWithinRange
    \/ CallShouldSkipRenewal
    \/ CallClearCache
    \/ Return

\* DueDateCache under arbitrary callers.
SpecDueApi == InitApi /\ [][NextDueApi]_vars

NextBothApi ==
    \/ EditDueFile
    \/ EditStatusFile
    \/ CallReadCachedDate
    \/ CallWriteCachedDate
    \/ CallClearCache
    \/ CallReadExecutionStatus
    \/ CallWriteExecutionStatus
    \/ CallClearStatus
    \/ Return

\* Both caches side by side: read, written, edited and cleared in any order.
SpecBothApi == InitApi /\ [][NextBothApi]_vars

\* ----------------------------------------------- calls of the page methods
CallWaitForElement ==
    /\ page = NoPage
    /\ \E locator \in Locators, timeout \in ArgTimeouts :
       \E present \in WaitsOf(Len(locator.fallbacks)) :
        LET drv == [NoDrv EXCEPT !.present = present]
            r == wait_for_element(locator, timeout, drv)
        IN  page' = [op |-> "wait_for_element", locator |-> locator,
                     timeout |-> timeout, drv |-> drv, res |-> r.res,
                     log |-> r.log]
    /\ UNCHANGED <<today, tick, dueFile, statusFile, ret, engineVars, mail>>

CallWaitForClickable ==
    /\ page = NoPage
    /\ \E locator \in Locators, timeout \in ArgTimeouts :
       \E clickable \in WaitsOf(Len(locator.fallbacks)) :
        LET drv == [NoDrv EXCEPT !.clickable = clickable]
            r == wait_for_clickable(locator, timeout, drv)
        IN  page' = [op |-> "wait_for_clickable", locator |-> locator,
                     timeout |-> timeout, drv |-> drv, res |-> r.res,
                     log |-> r.log]
    /\ UNCHANGED <<today, tick, dueFile, statusFile, ret, engineVars, mail>>

CallClickWithStrategies ==
    /\ page = NoPage
    /\ \E locator \in Locators :
       \E present \in WaitsOf(Len(locator.fallbacks)) :
       \E c1, j2, s3, c3, s4, j4 \in BOOLEAN :
        LET drv == [NoDrv EXCEPT !.present = present, !.click1 = c1,
                                 !.js2 = j2, !.scroll3 = s3, !.click3 = c3,
                                 !.scroll4 = s4, !.js4 = j4]
            r == click_with_strategies(locator, drv)
        IN  page' = [op |-> "click_with_strategies", locator |-> locator,
                     timeout |-> NoTimeout, drv |-> drv, res |-> r.res,
                     log |-> r.log]
    /\ UNCHANGED <<today, tick, dueFile, statusFile, ret, engineVars, mail>>

CallGetTextSafe ==
    /\ page = NoPage
    /\ \E locator \in Locators :
       \E present \in WaitsOf(Len(locator.fallbacks)) :
       \E raises \in BOOLEAN, text \in ElementTexts :
        LET drv == [NoDrv EXCEPT !.present = present, !.textRaises = raises,
                                 !.text = text]
            r == get_text_safe(locator, drv)
        IN  page' = [op |-> "get_text_safe", locator |-> locator,
                     timeout |-> NoTimeout, drv |-> drv, res |-> r.res,
                     log |-> r.log]
    /\ UNCHANGED <<today, tick, dueFile, statusFile, ret, engineVars, mail>>

CallIsElementPresent ==
    /\ page = NoPage
    /\ \E locator \in Locators, timeout \in ArgTimeouts \ {NoTimeout} :
       \E present \in WaitsOf(Len(locator.fallbacks)) :
        LET drv == [NoDrv EXCEPT !.present = present]
            r == is_element_present(locator, timeout, drv)
        IN  page' = [op |-> "is_element_present", locator |-> locator,
                     timeout |-> timeout, drv |-> drv, res |-> r.res,
                     log |-> r.log]
    /\ UNCHANGED <<today, tick, dueFile, statusFile, ret, engineVars, mail>>

\* the caller takes the result
PageReturn ==
    /\ page # NoPage
    /\ page' = NoPage
    /\ UNCHANGED <<today, tick, dueFile, statusFile, ret, engineVars, mail>>

CallIsOnDashboard ==
    /\ page = NoPage
    /\ \E locator \in Locators :
       \E present \in WaitsOf(Len(locator.fallbacks)) :
        LET drv == [NoDrv EXCEPT !.present = present]
            r == is_on_dashboard(locator, drv)
        IN  page' = [op |-> "is_on_dashboard", locator |-> locator,
                     timeout |-> ProbeTimeout, drv |-> drv, res |-> r.res,
                     log |-> r.log]
    /\ UNCHANGED <<today, tick, dueFile, statusFile, ret, engineVars, mail>>

NextPage ==
    \/ CallWaitForElement
    \/ CallWaitForClickable
    \/ CallClickWithStrategies
    \/ CallGetTextSafe
    \/ CallIsElementPresent
    \/ CallIsOnDashboard
    \/ PageReturn

\* The methods of BasePage under arbitrary callers and browsers.
SpecPage == InitApi /\ [][NextPage]_vars

\* ------------------------------------- calls of the EmailNotifier methods
\* mail.last is how the last connect since construction or disconnect ended.
NewNotifier ==
    /\ \E use_tls \in BOOLEAN : mail' = [NoMail EXCEPT !.use_tls = use_tls]
    /\ UNCHANGED <<today, tick, dueFile, statusFile, ret, engineVars, page>>

CallConnect ==
    /\ \E out \in ConnectOutcomes :
        /\ (out = "starttls_err") => mail.use_tls
        /\ LET r == connect(mail.server, mail.use_tls, out)
           IN  mail' = [mail EXCEPT !.server = r.server, !.op = "connect",
                                    !.raised = r.raised,
                                    !.last = IF r.raised = "" THEN "ok" ELSE "raised"]
    /\ UNCHANGED <<today, tick, dueFile, statusFile, ret, engineVars, page>>

CallDisconnect ==
    /\ \E out \in QuitOutcomes :
        LET r == disconnect(mail.server, out)
        IN  mail' = [mail EXCEPT !.server = r.server, !.op = "disconnect",
                                 !.raised = r.raised, !.last = "none"]
    /\ UNCHANGED <<today, tick, dueFile, statusFile, ret, engineVars, page>>

CallSendMessage ==
    /\ Len(mail.sent) < MaxSent
    /\ \E out \in SendOutcomes :
        LET r == _send_message(mail.server, out)
        IN  mail' = [mail EXCEPT !.server = r.server, !.op = "_send_message",
                                 !.raised = r.raised,
                                 !.sent = mail.sent \o r.sent]
    /\ UNCHANGED <<today, tick, dueFile, statusFile, ret, engineVars, page>>

NextMail ==
    \/ NewNotifier
    \/ CallConnect
    \/ CallDisconnect
    \/ CallSendMessage

\* One EmailNotifier at a time under arbitrary callers and SMTP servers.
SpecMail == InitApi /\ [][NextMail]_vars

\* ------------------------------------------------------------------ engine
\* A variant of check_renewal_needed with the subtraction turned round.
check_renewal_needed_reversed(renewal_date, current_date, days_before) ==
    current_date - renewal_date <= days_before

\* A variant of check_renewal_needed whose window is a day wider.
check_renewal_needed_day_wider(renewal_date, current_date, days_before) ==
    renewal_date - current_date <= days_before + 1

\* RenewalEngine.check_renewal_needed: due once the due date is no more than
\* days_before days ahead (an overdue plan is due).
check_renewal_needed(renewal_date, current_date, days_before) ==
    renewal_date - current_date <= days_before

\* The storage faults a run's reads meet that the cache methods answer with a
\* return value; a run that an exception out of a cache method ends is not a
\* run that completes.
RunReadIo == ReadIo \ {"stat_err"}

\* What driving the site can end in.
SiteFailures == {"element_not_found", "navigation_failure"}

\* execute_renewal, step 1: the status gate, on the cached due date, before
\* any browser session.  Without a cached due date there is nothing to gate
\* on and the run goes on.
StartRun ==
    /\ pc = "idle"
    /\ ret = NoRet
    /\ runsToday < MaxRuns
    /\ \E io1 \in RunReadIo, io2 \in RunReadIo :
        LET rd   == read_cached_date(dueFile, io1)
            gate == IF rd.val.some
                    THEN should_retry_renewal(statusFile, rd.val.date,
                                              daysBefore, today, io2)
                    ELSE [val |-> TRUE, file |-> statusFile]
        IN  /\ dueFile' = rd.file
            /\ statusFile' = gate.file
            /\ IF gate.val
               THEN /\ pc' = "session"
                    /\ browser' = TRUE
                    /\ run' = [NoRun EXCEPT !.result = "running", !.opened = TRUE]
               ELSE /\ pc' = "idle"
                    /\ browser' = browser
                    /\ run' = [NoRun EXCEPT !.result = "skipped"]
    /\ runsToday' = runsToday + 1
    /\ UNCHANGED <<today, tick, ret, siteDue, daysBefore, renewedToday>>
    /\ UNCHANGED <<page, mail>>

\* A variant of FetchDueDate whose failure path returns without closing the
\* session.
FetchDueDate_session_left_open ==
    /\ pc = "session"
    /\ \E outcome \in {"ok"} \cup SiteFailures, ioD \in WriteIo, ioS \in WriteIo :
        IF outcome \in SiteFailures
        THEN LET ws == write_execution_status(statusFile, FAILED, Now, ioS)
             IN  /\ statusFile' = ws.file
                 /\ dueFile' = dueFile
                 /\ run' = [run EXCEPT !.result = "failed", !.wroteStatus = ws.val]
                 /\ pc' = "idle"
                 /\ browser' = browser
        ELSE IF ~check_renewal_needed(siteDue, today, daysBefore)
        THEN LET wd == write_cached_date(dueFile, siteDue, ioD)
                 ws == write_execution_status(statusFile, NOT_DUE, Now, ioS)
             IN  /\ dueFile' = wd.file
                 /\ statusFile' = ws.file
                 /\ run' = [run EXCEPT !.result = "not_due",
                                       !.wroteDue = wd.val,
                                       !.wroteStatus = ws.val]
                 /\ pc' = "idle"
                 /\ browser' = FALSE
        ELSE /\ pc' = "renewing"
             /\ UNCHANGED <<dueFile, statusFile, run, browser>>
    /\ UNCHANGED <<today, tick, ret, siteDue, daysBefore, renewedToday, runsToday>>
    /\ UNCHANGED <<page, mail>>

\* execute_renewal, step 2: the session reads the live due date; a plan not
\* yet due is recorded as not_due, a site failure as failed.
FetchDueDate ==
    /\ pc = "session"
    /\ \E outcome \in {"ok"} \cup SiteFailures, ioD \in WriteIo, ioS \in WriteIo :
        IF outcome \in SiteFailures
        THEN LET ws == write_execution_status(statusFile, FAILED, Now, ioS)
             IN  /\ statusFile' = ws.file
                 /\ dueFile' = dueFile
                 /\ run' = [run EXCEPT !.result = "failed", !.wroteStatus = ws.val]
                 /\ pc' = "idle"
                 /\ browser' = FALSE
        ELSE IF ~check_renewal_needed(siteDue, today, daysBefore)
        THEN LET wd == write_cached_date(dueFile, siteDue, ioD)
                 ws == write_execution_status(statusFile, NOT_DUE, Now, ioS)
             IN  /\ dueFile' = wd.file
                 /\ statusFile' = ws.file
                 /\ run' = [run EXCEPT !.result = "not_due",
                                       !.wroteDue = wd.val,
                                       !.wroteStatus = ws.val]
                 /\ pc' = "idle"
                 /\ browser' = FALSE
        ELSE /\ pc' = "renewing"
             /\ UNCHANGED <<dueFile, statusFile, run, browser>>
    /\ UNCHANGED <<today, tick, ret, siteDue, daysBefore, renewedToday, runsToday>>
    /\ UNCHANGED <<page, mail>>

\* execute_renewal, step 3: the renew flow is driven; on completion the due
\* date the site now shows and the outcome are written, and the session is
\* closed.
RenewAttempt ==
    /\ pc = "renewing"
    /\ \E outcome \in {"success"} \cup SiteFailures, ioD \in WriteIo, ioS \in WriteIo :
        LET newDue == IF outcome = "success" THEN siteDue + PlanDays ELSE siteDue
            wd == write_cached_date(dueFile, newDue, ioD)
            ws == write_execution_status(
                      statusFile, IF outcome = "success" THEN SUCCESS ELSE FAILED,
                      Now, ioS)
        IN  /\ siteDue' = newDue
            /\ renewedToday' = renewedToday + (IF outcome = "success" THEN 1 ELSE 0)
            /\ dueFile' = wd.file
            /\ statusFile' = ws.file
            /\ run' = [run EXCEPT
                         !.result = IF outcome = "success" THEN "success" ELSE "failed",
                         !.attempted = TRUE,
                         !.wroteDue = wd.val,
                         !.wroteStatus = ws.val]
    /\ pc' = "idle"
    /\ browser' = FALSE
    /\ UNCHANGED <<today, tick, ret, daysBefore, runsToday>>
    /\ UNCHANGED <<page, mail>>

Next ==
    \/ NextDay
    \/ Tick
    \/ EditDueFile
    \/ EditStatusFile
    \/ StartRun
    \/ FetchDueDate
    \/ RenewAttempt

\* Sequential runs of the engine, and what happens to the files between them.
Spec == Init /\ [][Next]_vars

\* ------------------------------------------------------------------ claims
\* What the claims say about a call of should_retry_renewal that is returning.
RetryCall == ret.op = "should_retry_renewal"

\* today is inside the window: 0 <= due_date - today <= days_before
InsideWindow == 0 <= ret.date - today /\ ret.date - today <= ret.days

\* The status record as the call's read of the file yields it.
RecordRead == read_execution_status(statusFile, ret.io).val

\* C3: inside the window, with a readable valid status record dated today
\* whose status is success, should_retry_renewal returns false.
C3_SuccessTodayBlocksRetry ==
    (/\ RetryCall
     /\ InsideWindow
     /\ RecordRead.some
     /\ RecordRead.ts.date = today
     /\ RecordRead.status = SUCCESS) => ret.val = FALSE

C3_Witness ==
    /\ RetryCall
    /\ ret.date = today + 1
    /\ ret.days >= 1
    /\ RecordRead = SomeStatus(Now, SUCCESS)
    /\ ret.val = FALSE

\* C4: a record dated today with status failed, not_due or skipped never
\* blocks: should_retry_renewal returns true for every due date and every
\* days_before.
C4_FailedTodayRetries ==
    (/\ RetryCall
     /\ RecordRead.some
     /\ RecordRead.ts.date = today
     /\ RecordRead.status \in {FAILED, NOT_DUE, SKIPPED}) => ret.val = TRUE

C4_Witness ==
    /\ RetryCall
    /\ InsideWindow
    /\ RecordRead.some
    /\ RecordRead.ts.date = today
    /\ RecordRead.status = FAILED
    /\ ret.val = TRUE

\* C5: a record whose date is not today never blocks, whatever its status
\* (success included): should_retry_renewal returns true.
C5_StaleRecordRetries ==
    (/\ RetryCall
     /\ RecordRead.some
     /\ RecordRead.ts.date # today) => ret.val = TRUE

C5_Witness ==
    /\ RetryCall
    /\ InsideWindow
    /\ RecordRead.some
    /\ RecordRead.ts.date = today - 1
    /\ RecordRead.status = SUCCESS
    /\ ret.val = TRUE

\* C6: outside the window (due_date - today < 0 or > days_before)
\* should_retry_renewal returns true whatever the file holds, a success
\* dated today included.
C6_OutsideWindowRetries ==
    (RetryCall /\ ~InsideWindow) => ret.val = TRUE

C6_Witness ==
    /\ RetryCall
    /\ ret.date - today > ret.days
    /\ RecordRead.some
    /\ RecordRead.ts.date = today
    /\ RecordRead.status = SUCCESS
    /\ ret.val = TRUE

\* C7: inside the window, when the read of the status file returns and yields
\* no record (no file, a read error, a malformed record),
\* should_retry_renewal returns true and the due-date file is left as it was.
C7_AbsentRecordRetries ==
    [][ (/\ ret.op = "none"
         /\ ret'.op = "should_retry_renewal"
         /\ 0 <= ret'.date - today /\ ret'.date - today <= ret'.days
         /\ ~ret'.raised
         /\ ~read_execution_status(statusFile, ret'.io).val.some)
        => (ret'.val = TRUE /\ dueFile' = dueFile) ]_vars

\* The call healed a malformed record away, and the due date is still cached.
C7_Witness ==
    /\ RetryCall
    /\ InsideWindow
    /\ ret.io = "ok"
    /\ ~statusFile.exists
    /\ read_cached_date(dueFile, "ok").val.some
    /\ ret.val = TRUE

\* The status record and the due date the files hold, read without a fault.
StoredStatus == read_execution_status(statusFile, "ok").val
StoredDue == read_cached_date(dueFile, "ok").val

\* A run has just completed: nothing but the clock has moved since.
RunDone == pc = "idle" /\ run.result \notin {"none", "running"}

\* A timestamp taken today, no later than now.
StampedToday(ts) == \E k \in 0..tick : ts = TimeOfTick(today, k)

\* C1: over any sequence of completed runs on one calendar day at most one
\* renewal is performed on the site, and once one has been performed no
\* later run of that day gets as far as a renewal attempt.
C1_AtMostOneRenewalPerDay ==
    /\ renewedToday <= 1
    /\ pc = "renewing" => renewedToday = 0

\* A second run of the day completed after the renewal, without renewing.
C1_Witness ==
    /\ RunDone
    /\ renewedToday = 1
    /\ runsToday >= 2
    /\ run.result = "not_due"
    /\ ~run.attempted

\* C2: a run started right after a run that recorded a same-day success and
\* wrote the fresh next due date ends as skipped and opens no browser
\* session.
C2_RerunAfterSuccessSkipped ==
    [][ (/\ run.result = "success"
         /\ run.wroteDue
         /\ run.wroteStatus
         /\ runsToday' = runsToday + 1)
        => (run'.result = "skipped" /\ browser' = FALSE) ]_vars

\* C8: a run that should_retry_renewal stops ends as skipped at once: no
\* browser session, no renewal attempt, both cache files and the site as
\* they were.
C8_SkipTouchesNothing ==
    [][ (runsToday' = runsToday + 1 /\ run'.result = "skipped")
        => (/\ pc' = "idle"
            /\ browser' = FALSE
            /\ ~run'.opened
            /\ ~run'.attempted
            /\ dueFile' = dueFile
            /\ statusFile' = statusFile
            /\ siteDue' = siteDue
            /\ renewedToday' = renewedToday) ]_vars

C8_Witness ==
    /\ RunDone
    /\ run.result = "skipped"
    /\ ~browser
    /\ StoredDue.some
    /\ StoredStatus.some
    /\ StoredStatus.ts.date = today
    /\ StoredStatus.status = SUCCESS

C10_AttemptWritesBothCaches ==
    (RunDone /\ run.attempted)
        => (/\ run.result \in {"success", "failed"}
            /\ run.wroteDue => StoredDue = SomeDate(siteDue)
            /\ run.wroteStatus =>
                   (/\ StoredStatus.some
                    /\ StoredStatus.status =
                           (IF run.result = "success" THEN SUCCESS ELSE FAILED)
                    /\ StampedToday(StoredStatus.ts)))

\* The first run of the first day renews a plan due today: the due-date file
\* reads back today + 30, the status file (now, success).
C10_Witness ==
    /\ RunDone
    /\ run.result = "success"
    /\ runsToday = 1
    /\ today = Epoch
    /\ siteDue = today + PlanDays
    /\ StoredDue = SomeDate(today + PlanDays)
    /\ StoredStatus = SomeStatus(Now, SUCCESS)

\* C11: a run that passed the status gate and finds the plan not yet due
\* (the live due date is more than days_before days ahead) ends as not_due
\* without a renewal attempt: the site's due date stays as it was, no renewal
\* is counted, the session is closed, and the status file, when its write
\* returned true, holds (time of the run, not_due).  Only a site failure while the due
\* date is fetched ends such a run otherwise.
C11_NotDueRecordsAndStops ==
    /\ [][(/\ pc = "session"
           /\ pc' # "session"
           /\ siteDue - today > daysBefore
           /\ run'.result # "failed")
          => (/\ pc' = "idle"
              /\ browser' = FALSE
              /\ run'.result = "not_due"
              /\ ~run'.attempted
              /\ siteDue' = siteDue
              /\ renewedToday' = renewedToday)]_vars
    /\ [](RunDone /\ run.result = "not_due" /\ run.wroteStatus
              => (/\ StoredStatus.some
                  /\ StoredStatus.status = NOT_DUE
                  /\ StampedToday(StoredStatus.ts)))

\* A run has ended as not_due with the record stored and no renewal made.
C11_Witness ==
    /\ RunDone
    /\ run.result = "not_due"
    /\ run.opened
    /\ ~run.attempted
    /\ run.wroteStatus
    /\ StoredStatus.status = NOT_DUE
    /\ siteDue - today > daysBefore
    /\ renewedToday = 0

\* C12: a browser session is open exactly while a run that passed the status
\* gate is under way; every run that has completed (success, failed on an
\* element-not-found or navigation error, not_due, skipped) has left no
\* session open, and only a run that opened one can have made an attempt.
C12_SessionClosedOnEveryExit ==
    /\ browser <=> pc \in {"session", "renewing"}
    /\ pc = "idle" => ~browser
    /\ pc \in {"session", "renewing"} => run.opened
    /\ run.attempted => run.opened

\* A run that opened a session and failed before the attempt has completed
\* with the session closed.
C12_Witness ==
    /\ RunDone
    /\ run.opened
    /\ run.result = "failed"
    /\ ~run.attempted
    /\ ~browser

\* What the claims say about a call of read_cached_date that returns on a
\* stored file: the step of the call, the stripped text it read, its parse.
ReadsStoredDue ==
    /\ ret = NoRet
    /\ ret'.op = "read_cached_date"
    /\ dueFile.exists

DueText == strip(dueFile.text)

DueParse == strptime_ymd(DueText)

C14_DueDateRoundTrip ==
    /\ [](ret.op = "write_cached_date" /\ ret.val
              => StoredDue = SomeDate(ret.date))
    /\ [][\A d \in ArgDates :
              (/\ ReadsStoredDue
               /\ ret'.io \in {"ok", "unlink_err"}
               /\ dueFile = write_cached_date(dueFile, d, "ok").file)
              => (ret'.dval = SomeDate(d) /\ dueFile' = dueFile)]_vars

\* A read has returned a date that only a write can have stored.
C14_Witness ==
    /\ ret.op = "read_cached_date"
    /\ ret.dval = SomeDate(Epoch - 1)
    /\ StoredDue = SomeDate(Epoch - 1)

\* The distance between two dates, in days.
DaysApart(d1, d2) == IF d1 < d2 THEN d2 - d1 ELSE d1 - d2

\* C15: a call is_within_range(current_date, range_days) that returns,
\* returns true exactly when its read of the file yields a cached date and
\* that date is no more than range_days days from current_date, before or
\* after; it returns the same with the two dates swapped (current_date
\* cached, the cached date passed); it returns false whenever the read yields
\* no date.
C15_WithinRangeIsAbsDiff ==
    [][(ret = NoRet /\ ret'.op = "is_within_range" /\ ~ret'.raised)
       => LET cached == read_cached_date(dueFile, ret'.io).val
              swapped == write_cached_date(dueFile, ret'.date, "ok").file
          IN  /\ ret'.val = (/\ cached.some
                             /\ DaysApart(ret'.date, cached.date) <= ret'.days)
              /\ ~cached.some => ~ret'.val
              /\ cached.some =>
                   ret'.val = is_within_range(swapped, cached.date,
                                              ret'.days, "ok").val]_vars

\* A call has returned true for a cached date that lies after current_date.
C15_Witness ==
    /\ ret.op = "is_within_range"
    /\ ~ret.raised
    /\ ret.val
    /\ StoredDue.some
    /\ ret.date < StoredDue.date

\* C16: a call of should_skip_renewal that returns, returns false with no
\* cache file and creates none (a first run is never skipped); with a file
\* it returns what is_within_range returns for the same arguments and
\* leaves the file as is_within_range leaves it, false included when the
\* file yields no date.
C16_SkipDefersToWithinRange ==
    [][(ret = NoRet /\ ret'.op = "should_skip_renewal" /\ ~ret'.raised)
       => IF ~dueFile.exists
          THEN ~ret'.val /\ dueFile' = dueFile
          ELSE LET r == is_within_range(dueFile, ret'.date, ret'.days, ret'.io)
               IN  /\ ret'.val = r.val
                   /\ dueFile' = r.file
                   /\ ~read_cached_date(dueFile, ret'.io).val.some
                          => ~ret'.val]_vars

\* A call on a first run, with no cache file, has returned false.
C16_Witness ==
    /\ ret.op = "should_skip_renewal"
    /\ ret.io = "ok"
    /\ ~ret.had
    /\ ~ret.val
    /\ ~dueFile.exists

\* C17: clear_cache and clear_status are idempotent deletes.  A clear with no
\* file returns true and leaves no file; a clear that returned true has left
\* no file, and any clear after it returns true with no file again (each
\* where the storage lets the path be looked at); a clear repeated under the
\* same storage conditions returns the same and leaves the same; and a clear
\* of one cache leaves the file of the other as it is.
C17_ClearIsIdempotent ==
    /\ [][(ret = NoRet /\ ret'.op = "clear_cache")
          => (/\ statusFile' = statusFile
              /\ (~dueFile.exists /\ ret'.io # "stat_err")
                     => (ret'.val /\ ~dueFile'.exists)
              /\ ret'.val => ~dueFile'.exists
              /\ ret'.val => \A io \in RemoveIo \ {"stat_err"} :
                     clear_cache(dueFile', io) = [val |-> TRUE, file |-> NoFile]
              /\ clear_cache(dueFile', ret'.io)
                     = [val |-> ret'.val, file |-> dueFile'])]_vars
    /\ [][(ret = NoRet /\ ret'.op = "clear_status")
          => (/\ dueFile' = dueFile
              /\ (~statusFile.exists /\ ret'.io # "stat_err")
                     => (ret'.val /\ ~statusFile'.exists)
              /\ ret'.val => ~statusFile'.exists
              /\ ret'.val => \A io \in RemoveIo \ {"stat_err"} :
                     clear_status(statusFile', io) = [val |-> TRUE, file |-> NoFile]
              /\ clear_status(statusFile', ret'.io)
                     = [val |-> ret'.val, file |-> statusFile'])]_vars

\* clear_cache has returned true with no file to delete, and the status file
\* is still there.
C17_Witness ==
    /\ ret.op = "clear_cache"
    /\ ~ret.had
    /\ ret.val
    /\ ~dueFile.exists
    /\ statusFile.exists

\* The cache methods that read, and those that write.
ReadOps == {"read_cached_date", "read_execution_status"}
WriteOps == {"write_cached_date", "write_execution_status"}

\* C18: no call of a cache method raises; a write that meets a storage
\* failure returns false and leaves the file with the record stored before;
\* a read that meets a storage failure returns absence.
C18_StorageFailuresNeverRaise ==
    [][ret = NoRet /\ ret' # NoRet
       => (/\ ~ret'.raised
           /\ (ret'.op \in WriteOps /\ ret'.io # "ok")
                  => (/\ ~ret'.val
                      /\ dueFile' = dueFile
                      /\ statusFile' = statusFile)
           /\ (ret'.op \in ReadOps /\ ret'.io \in {"read_err", "stat_err"})
                  => ~ret'.val)]_vars

\* What the claims say about a call of write_execution_status that has
\* returned true: ret.sval keeps the timestamp and the status passed.
WroteStatus == ret.op = "write_execution_status" /\ ret.val

\* A status token that reads as one of the four: one of them with whitespace
\* around it and no line feed before it.
ReadsAsValid(st) ==
    /\ strip(st) \in valid_statuses
    /\ \A i \in 1..(Len(st) - Len(lstrip(st))) : st[i] # LF

\* C19 as stated: after write_execution_status(status, t) with one of the
\* four statuses the file reads back as (t, status); with any other token
\* the write, met by no storage failure, returns true all the same and the
\* file reads back as absence.
C19_OtherTokenReadsAbsent ==
    /\ (ret.op = "write_execution_status" /\ ret.io = "ok") => ret.val
    /\ (WroteStatus /\ ret.sval.status \in valid_statuses)
           => StoredStatus = ret.sval
    /\ (WroteStatus /\ ret.sval.status \notin valid_statuses)
           => ~StoredStatus.some

\* C19, amended: the same, except that a token that is one of the four with
\* whitespace around it reads back as (t, that status), not as absence.
C19_StatusRoundTrip ==
    /\ (ret.op = "write_execution_status" /\ ret.io = "ok") => ret.val
    /\ (WroteStatus /\ ret.sval.status \in valid_statuses)
           => StoredStatus = ret.sval
    /\ (WroteStatus /\ ret.sval.status \notin valid_statuses)
           => StoredStatus = (IF ReadsAsValid(ret.sval.status)
                              THEN SomeStatus(ret.sval.ts, strip(ret.sval.status))
                              ELSE NoStatus)

\* A record whose timestamp carries microseconds has been written and reads
\* back as it was passed.
C19_Witness ==
    /\ WroteStatus
    /\ ret.sval.ts.us # 0
    /\ ret.sval.status = NOT_DUE
    /\ StoredStatus = ret.sval

\* What the claims say about a call of read_execution_status that returns on
\* a stored file which the storage lets it read: the step of the call, the
\* lines it reads, and whether they make a record.
ReadsStoredStatus ==
    /\ ret = NoRet
    /\ ret'.op = "read_execution_status"
    /\ statusFile.exists

StatusLines == split(strip(statusFile.text), LF)

TimestampParses == fromisoformat(strip(StatusLines[1])).ok

Malformed ==
    \/ Len(StatusLines) # 2
    \/ strip(StatusLines[1]) = <<>>
    \/ strip(StatusLines[2]) = <<>>
    \/ ~TimestampParses
    \/ strip(StatusLines[2]) \notin valid_statuses

PageOrder ==
    <<page.locator.key>> \o
    [i \in 1..Len(page.locator.fallbacks) |-> page.locator.fallbacks[i].key]

\* the waits of the call, in the order they were made
PageWaits == SelectSeq(page.log, LAMBDA e : e.ev = "wait")

PageRaised == page.res.kind \notin {"element", "bool", "text"}

\* C21: wait_for_element waits for the primary locator first and then for the
\* fallbacks in their listed order, every wait with the same timeout budget;
\* it returns the element of the first locator that resolves and waits for no
\* later one: one wait when the primary works, two when the primary fails and
\* the first fallback works.
C21_LocatorsTriedInOrder ==
    page.op = "wait_for_element" =>
        /\ Len(page.log) >= 1
        /\ Len(page.log) <= Len(PageOrder)
        /\ \A i \in 1..Len(page.log) :
              /\ page.log[i] = Poll(PageOrder[i], page.log[1].budget, "presence")
              /\ i < Len(page.log) => page.drv.present[PageOrder[i]] # "found"
        /\ page.res.kind = "element" =>
              /\ page.res.el = PageOrder[Len(page.log)]
              /\ page.drv.present[page.res.el] = "found"
        /\ (\E i \in 1..Len(PageOrder) : page.drv.present[PageOrder[i]] = "found")
              => page.res.kind = "element"
        /\ page.drv.present[PageOrder[1]] = "found" => Len(page.log) = 1
        /\ (/\ Len(PageOrder) >= 2
            /\ page.drv.present[PageOrder[1]] # "found"
            /\ page.drv.present[PageOrder[2]] = "found") => Len(page.log) = 2

\* The primary timed out, the first of two fallbacks resolved, and the second
\* fallback, which would have resolved too, was not waited for.
C21_Witness ==
    /\ page.op = "wait_for_element"
    /\ Len(page.locator.fallbacks) = 2
    /\ page.drv.present[0] = "timeout"
    /\ page.drv.present[1] = "found"
    /\ page.drv.present[2] = "found"
    /\ page.res.kind = "element"
    /\ page.res.el = 1
    /\ Len(page.log) = 2

\* C22: wait_for_element raises ElementNotFoundError only after the primary
\* and every fallback have each been waited for exactly once; the error names
\* the description of the primary locator and a count that is one more than
\* the number of fallbacks, which is the number of locators waited for.
C22_NotFoundAfterAllTried ==
    (page.op = "wait_for_element" /\ page.res.kind # "element") =>
        /\ page.res.kind = "ElementNotFoundError"
        /\ Len(PageWaits) = Len(page.log)
        /\ Len(PageWaits) = Len(PageOrder)
        /\ \A i \in 1..Len(PageOrder) : PageWaits[i].key = PageOrder[i]
        /\ \A k \in 0..MaxFallbacks :
              Cardinality({i \in 1..Len(PageWaits) : PageWaits[i].key = k})
                  = (IF k <= Len(page.locator.fallbacks) THEN 1 ELSE 0)
        /\ page.res.msg = "Element not found"
        /\ page.res.desc = page.locator.description
        /\ page.res.desc = Locator(0).description
        /\ page.res.count = 1 + Len(page.locator.fallbacks)
        /\ page.res.count = Len(PageWaits)

\* Neither the primary nor either of two fallbacks resolved, one of them with
\* a driver error instead of a timeout, and the error reports three locators.
C22_Witness ==
    /\ page.op = "wait_for_element"
    /\ Len(page.locator.fallbacks) = 2
    /\ page.drv.present[1] = "error"
    /\ page.res.kind = "ElementNotFoundError"
    /\ page.res.count = 3
    /\ Len(page.log) = 3

\* the driver calls of the call that are not waits, in the order they were made
PageActs == SelectSeq(page.log, LAMBDA e : e.ev # "wait")

PageEvents == [i \in 1..Len(PageActs) |-> PageActs[i].ev]

PageResolved == \E i \in 1..Len(PageOrder) : page.drv.present[PageOrder[i]] = "found"

\* what the third strategy does before the fourth starts
ThirdFailed ==
    IF page.drv.scroll3 THEN <<"scroll", "sleep", "click">> ELSE <<"scroll">>

\* C23: on a resolved element click_with_strategies tries the native click,
\* the script click, scroll plus native click and scroll plus script click in
\* this order, returns true at the first that does not raise and runs no
\* later strategy: when the native click raises and the script click goes
\* through, nothing is scrolled.
C23_ClickStrategiesInOrder ==
    (page.op = "click_with_strategies" /\ PageResolved) =>
        /\ page.drv.click1 =>
              PageEvents = <<"click">> /\ page.res = Bool(TRUE)
        /\ (~page.drv.click1 /\ page.drv.js2) =>
              PageEvents = <<"click", "script_click">> /\ page.res = Bool(TRUE)
        /\ (~page.drv.click1 /\ ~page.drv.js2
                /\ page.drv.scroll3 /\ page.drv.click3) =>
              /\ PageEvents = <<"click", "script_click", "scroll", "sleep", "click">>
              /\ page.res = Bool(TRUE)
        /\ (~page.drv.click1 /\ ~page.drv.js2
                /\ ~(page.drv.scroll3 /\ page.drv.click3)
                /\ page.drv.scroll4 /\ page.drv.js4) =>
              /\ PageEvents = <<"click", "script_click">> \o ThirdFailed
                                  \o <<"scroll", "sleep", "script_click">>
              /\ page.res = Bool(TRUE)
        /\ page.res = Bool(TRUE) =>
              \/ page.drv.click1
              \/ page.drv.js2
              \/ page.drv.scroll3 /\ page.drv.click3
              \/ page.drv.scroll4 /\ page.drv.js4

\* The native click raised, the script click went through, and nothing was
\* scrolled although the scrolling strategies would have worked too.
C23_Witness ==
    /\ page.op = "click_with_strategies"
    /\ PageResolved
    /\ ~page.drv.click1
    /\ page.drv.js2
    /\ page.drv.scroll3
    /\ page.drv.click3
    /\ PageEvents = <<"click", "script_click">>
    /\ page.res = Bool(TRUE)

\* C24: click_with_strategies resolves the element exactly once, through
\* wait_for_element with the default timeout, and every strategy acts on that
\* element; when the resolution fails the ElementNotFoundError of
\* wait_for_element reaches the caller and nothing is clicked or scrolled;
\* when all four strategies raise it raises an ElementNotFoundError that
\* names the locator, and it never returns anything but true.
C24_ClickResolvesOnce ==
    page.op = "click_with_strategies" =>
        /\ Len(PageWaits) >= 1
        /\ Len(PageWaits) <= Len(PageOrder)
        /\ \A i \in 1..Len(PageWaits) :
              /\ page.log[i] = Poll(PageOrder[i], DefaultTimeout, "presence")
              /\ i < Len(PageWaits) => page.drv.present[PageOrder[i]] # "found"
        /\ PageResolved =>
              /\ page.drv.present[PageOrder[Len(PageWaits)]] = "found"
              /\ PageActs # <<>>
              /\ \A i \in 1..Len(PageActs) :
                    PageActs[i].key = PageOrder[Len(PageWaits)]
        /\ ~PageResolved =>
              /\ page.res = ElementNotFoundError("Element not found",
                                page.locator.description,
                                1 + Len(page.locator.fallbacks))
              /\ PageActs = <<>>
        /\ (/\ PageResolved
            /\ ~page.drv.click1
            /\ ~page.drv.js2
            /\ ~(page.drv.scroll3 /\ page.drv.click3)
            /\ ~(page.drv.scroll4 /\ page.drv.js4)) =>
              /\ page.res.kind = "ElementNotFoundError"
              /\ page.res.msg = "Failed to click element"
              /\ page.res.desc = page.locator.description
        /\ page.res.kind = "bool" => page.res.ok

\* The element was resolved by the second fallback, all four strategies
\* raised on it, the last two after a scroll that went through, and the call
\* raised.
C24_Witness ==
    /\ page.op = "click_with_strategies"
    /\ page.drv.present[2] = "found"
    /\ Len(PageWaits) = 3
    /\ page.drv.scroll3
    /\ page.drv.scroll4
    /\ Len(PageActs) = 8
    /\ \A i \in 1..Len(PageActs) : PageActs[i].key = 2
    /\ page.res.kind = "ElementNotFoundError"

\* C25: wait_for_clickable makes a single wait, on the primary locator only;
\* when the primary does not become clickable within the timeout it raises
\* ElementNotFoundError, also when a fallback of the locator is clickable.
C25_ClickableIgnoresFallbacks ==
    page.op = "wait_for_clickable" =>
        /\ page.log = <<Poll(page.locator.key, wait_timeout(page.timeout),
                             "clickable")>>
        /\ page.drv.clickable[page.locator.key] = "found" =>
              page.res = Element(page.locator.key)
        /\ page.drv.clickable[page.locator.key] # "found" =>
              /\ page.res.kind = "ElementNotFoundError"
              /\ page.res.msg = "Element not clickable"
              /\ page.res.desc = page.locator.description

\* The primary did not become clickable, the first fallback was clickable,
\* and the call raised after its one wait.
C25_Witness ==
    /\ page.op = "wait_for_clickable"
    /\ Len(page.locator.fallbacks) >= 1
    /\ page.drv.clickable[0] = "timeout"
    /\ page.drv.clickable[1] = "found"
    /\ page.res.kind = "ElementNotFoundError"
    /\ Len(page.log) = 1

\* t is s without the white space at its two ends
IsTrimOf(t, s) ==
    /\ t # <<>> => ~IsSpace(t[1]) /\ ~IsSpace(t[Len(t)])
    /\ \E i \in 0..Len(s) :
          /\ i + Len(t) <= Len(s)
          /\ SubSeq(s, i + 1, i + Len(t)) = t
          /\ \A j \in 1..Len(s) : (j <= i \/ j > i + Len(t)) => IsSpace(s[j])

C27_PresenceProbeNeverRaises ==
    page.op = "is_element_present" =>
        /\ page.res.kind = "bool"
        /\ page.res.ok <=> page.drv.present[page.locator.key] = "found"
        /\ page.log = <<Poll(page.locator.key, page.timeout, "presence")>>

\* The wait failed with a driver error, not a timeout, although a fallback
\* would have resolved, and the probe returned false.
C27_Witness ==
    /\ page.op = "is_element_present"
    /\ page.drv.present[0] = "error"
    /\ page.drv.present[1] = "found"
    /\ page.res = Bool(FALSE)

\* how many driver calls of the kinds in evs the call has made
PageCount(evs) == Cardinality({i \in 1..Len(page.log) : page.log[i].ev \in evs})

\* C30: every element-layer call ends after a bounded number of driver calls,
\* each wait with a finite budget and no locator waited for twice:
\* wait_for_element makes at most 1 + n waits for a locator with n fallbacks,
\* click_with_strategies at most that many waits and at most four click
\* attempts, and each ends with its element or true, or with
\* ElementNotFoundError.
C30_BoundedAttempts ==
    page.op # "" =>
        /\ PageCount({"wait"}) >= 1
        /\ PageCount({"wait"}) <= 1 + Len(page.locator.fallbacks)
        /\ \A i, j \in 1..Len(page.log) :
              (page.log[i].ev = "wait" /\ page.log[j].ev = "wait" /\ i # j)
                  => page.log[i].key # page.log[j].key
        /\ \A i \in 1..Len(page.log) :
              page.log[i].ev = "wait" =>
                  page.log[i].budget \in 0..DefaultTimeout
        /\ PageCount({"click", "script_click"}) <= 4
        /\ PageCount({"scroll"}) <= 2
        /\ PageCount({"sleep"}) <= 2
        /\ PageCount({"text"}) <= 1
        /\ page.op = "wait_for_element" =>
              /\ Len(page.log) <= 1 + Len(page.locator.fallbacks)
              /\ page.res.kind \in {"element", "ElementNotFoundError"}
        /\ page.op = "click_with_strategies" =>
              \/ page.res = Bool(TRUE)
              \/ page.res.kind = "ElementNotFoundError"
        /\ page.op \in {"wait_for_clickable", "is_element_present"} =>
              Len(page.log) = 1

\* A click that used every attempt it has: three waits to resolve the element
\* through the second fallback, then four click attempts, the last of which
\* went through.
C30_Witness ==
    /\ page.op = "click_with_strategies"
    /\ Len(page.locator.fallbacks) = 2
    /\ PageCount({"wait"}) = 3
    /\ PageCount({"click", "script_click"}) = 4
    /\ page.res = Bool(TRUE)

\* ---- cache claims, continued
\* the status field of a stored record of two lines
StatusField == strip(StatusLines[2])

\* C28: the status reader heals asymmetrically.  Of a stored record of two
\* lines that the storage lets it read and remove, a read deletes the record
\* whose timestamp does not parse, leaves the record whose timestamp parses
\* and whose status is none of the four in place, and deletes the record with
\* both defects, since the timestamp is parsed first; each reads as absent.
C28_AsymmetricHealing ==
    [][(ReadsStoredStatus /\ ret'.io = "ok" /\ Len(StatusLines) = 2)
       => (/\ ~TimestampParses => (~statusFile'.exists /\ ~ret'.sval.some)
           /\ (TimestampParses /\ StatusField \notin valid_statuses)
                 => (statusFile' = statusFile /\ ~ret'.sval.some)
           /\ (~TimestampParses /\ StatusField \notin valid_statuses)
                 => ~statusFile'.exists)]_vars

\* A record whose timestamp does not parse and whose status is none of the
\* four has been read as absent and is gone.
C28_Witness ==
    /\ ret.op = "read_execution_status"
    /\ ret.had
    /\ ret.io = "ok"
    /\ ~ret.sval.some
    /\ ~statusFile.exists
    /\ ret.text = <<"n", "o", "w", LF, "d", "o", "n", "e">>

\* what a two-line status file holds, read off its text
StatusDecoded ==
    IF /\ statusFile.exists
       /\ Len(StatusLines) = 2
       /\ TimestampParses
       /\ StatusField \in valid_statuses
    THEN SomeStatus(fromisoformat(strip(StatusLines[1])).ts, StatusField)
    ELSE NoStatus

\* what a due-date file holds, read off its text
DueDecoded ==
    IF dueFile.exists /\ DueParse.ok THEN SomeDate(DueParse.date) ELSE NoDate

RetryReturns == ret = NoRet /\ ret'.op = "should_retry_renewal"

\* today is inside the window of the call that returns in this step
RetryInsideWindow ==
    0 <= ret'.date - today /\ ret'.date - today <= ret'.days

\* the stored record has two lines and a timestamp that does not parse
UnparsableTimestamp ==
    statusFile.exists /\ Len(StatusLines) = 2 /\ ~TimestampParses

\* C31: should_retry_renewal never writes a record and never touches the due
\* date file.  It leaves the status file as it is in every case but one:
\* inside the window a stored record whose timestamp does not parse is
\* deleted (when the storage lets the call read and remove it).  Outside the
\* window the file is not read: a corrupt record stays, and a storage that
\* cannot be read does not make the call fail.
C31_RetryCheckFrame ==
    [][RetryReturns
       => (/\ dueFile' = dueFile
           /\ statusFile' \in {statusFile, NoFile}
           /\ statusFile' # statusFile
                 => (RetryInsideWindow /\ UnparsableTimestamp)
           /\ (RetryInsideWindow /\ UnparsableTimestamp /\ ret'.io = "ok")
                 => ~statusFile'.exists
           /\ ~RetryInsideWindow
                 => (statusFile' = statusFile /\ ret'.val /\ ~ret'.raised))]_vars

\* Inside the window the call found a status file, removed it, and answered
\* that the renewal is to be attempted.
C31_Witness ==
    /\ RetryCall
    /\ InsideWindow
    /\ ret.had
    /\ ret.io = "ok"
    /\ ~statusFile.exists
    /\ ret.val

\* ---- BasePage claims, continued
\* what wait_for_element does with the locator, the timeout and the browser
\* of the call
SameWait == wait_for_element(page.locator, page.timeout, page.drv)

\* C32: is_element_present, and with it is_on_dashboard, waits for the
\* primary locator only.  Whenever it returns true, wait_for_element with the
\* same locator and timeout resolves too, to the element of the primary;
\* whenever wait_for_element resolves through a fallback, it returns false.
C32_ProbeAgreesOnPrimaryOnly ==
    page.op \in {"is_element_present", "is_on_dashboard"} =>
        /\ page.res.kind = "bool"
        /\ \A i \in 1..Len(page.log) : page.log[i].key = page.locator.key
        /\ Len(page.log) = 1
        /\ page.res.ok =>
              SameWait.res = Element(page.locator.key)
        /\ (SameWait.res.kind = "element"
                /\ SameWait.res.el # page.locator.key) => ~page.res.ok
        /\ SameWait.res.kind # "element" => ~page.res.ok
        /\ page.op = "is_on_dashboard" =>
              page.log[1].budget = ProbeTimeout

\* The dashboard check returned false for a locator that wait_for_element
\* resolves through its first fallback.
C32_Witness ==
    /\ page.op = "is_on_dashboard"
    /\ page.res = Bool(FALSE)
    /\ SameWait.res = Element(1)

\* ---- EmailNotifier claims
\* C33: EmailNotifier transmits a message only over a connection that a
\* successful connect() established and authenticated: _send_message raises
\* RuntimeError before any connect(), after a connect() that raised and after
\* any disconnect(); disconnect() raises nothing and leaves the notifier
\* without a server, also when quit fails or no server was set.
C33_SendOnlyWhenConnected ==
    /\ \A i \in 1..Len(mail.sent) : mail.sent[i].auth
    /\ (mail.op = "_send_message" /\ mail.last # "ok")
           => mail.raised = "RuntimeError"
    /\ mail.op = "disconnect" => (~mail.server.set /\ mail.raised = "")

====
